---- MODULE Spec2Model ----
(***************************************************************************)
(* Routine data model (src/routine/routine_schema.py), CSV <-> JSON        *)
(* converter (src/routine/routine_converter.py) and the visual flow editor *)
(* (src/gui/flow_editor.py) of auton-maple.                                *)
(*                                                                         *)
(* Python strings are modelled as sequences of tokens: a token is a word   *)
(* (a run of characters without blank, '=', ',' or newline), or one of the *)
(* separators " ", "=", ",", "\n".  An f-string is a concatenation.        *)
(* Python's None is the one-token sequence None, whose token is in no      *)
(* alphabet used below.                                                    *)
(***************************************************************************)
EXTENDS Integers, Sequences, FiniteSets, TLC

VARIABLES
    routine,        \* the RoutineFlow object the model API / converter works on
    routine_flow,   \* FlowEditorCanvas.routine_flow
    flow_nodes,     \* FlowEditorCanvas.flow_nodes : node id -> FlowNode
    selected_node,  \* FlowEditorCanvas.selected_node : FlowNode or PyNone
    canvas,         \* items of the tk canvas that carry a node tag
    csv_file,       \* content of the CSV file on disk
    json_file,      \* content of the JSON file on disk
    routine_dict,   \* a dictionary in memory, as handed to RoutineFlow.from_dict
    op,             \* the last operation performed and its arguments
    pre,            \* the object the last operation started from
    ret,            \* what the last operation returned or raised
    pc,             \* position inside json_to_csv
    current_id,     \* json_to_csv: local current_id
    visited,        \* json_to_csv: local visited
    ordered_nodes   \* json_to_csv: local ordered_nodes (positions in routine.nodes)

vars == <<routine, routine_flow, flow_nodes, selected_node, canvas, csv_file,
          json_file, routine_dict, op, pre, ret, pc, current_id, visited, ordered_nodes>>

----------------------------------------------------------------------------
(* Bounds of the model.                                                    *)

\* longest node sequence of an enumerated routine
MaxNodes == 3

----------------------------------------------------------------------------
(* Strings and Python values.                                              *)

None == <<"<None>">>

Str(w) == <<w>>

\* bool(s) of an Optional[str]
Truthy(s) == s # None /\ s # <<>>

\* f"node_{n}"
\* an id drawn from a counter that wraps around
NodeIdOf_wrapping(n) == <<"node_", ToString(n % 2)>>

NodeIdOf(n) == <<"node_", ToString(n)>>

PyInt(n) == [t |-> "int", i |-> n]

PyFloat(n) == [t |-> "float", f |-> n]

PyStr(s) == [t |-> "str", s |-> s]

PyBool(b) == [t |-> "bool", b |-> b]

PyNone == [t |-> "none"]

\* a value json.dumps has no encoding for (a set, a datetime, an object)
PyObject == [t |-> "object"]

Range(s) == {s[i] : i \in DOMAIN s}

----------------------------------------------------------------------------
(* routine_schema.py : the node classes.  A node object is a record whose  *)
(* field cls is its Python class and whose other fields are the dataclass  *)
(* fields.                                                                 *)

NodePosition(x, y) == [x |-> x, y |-> y]

CommandData(type, params) == [type |-> type, params |-> params]

RoutineNode(id, type, editor_position, next) ==
    [cls |-> "RoutineNode", id |-> id, type |-> type,
     editor_position |-> editor_position, next |-> next]

\* __post_init__ overwrites whatever type was passed
PointNode(id, editor_position, next, game_position, commands, frequency, skip, adjust) ==
    [cls |-> "PointNode", id |-> id, type |-> Str("point"),
     editor_position |-> editor_position, next |-> next,
     game_position |-> game_position, commands |-> commands,
     frequency |-> frequency, skip |-> skip, adjust |-> adjust]

LabelNode(id, editor_position, next, label) ==
    [cls |-> "LabelNode", id |-> id, type |-> Str("label"),
     editor_position |-> editor_position, next |-> next, label |-> label]

JumpNode(id, editor_position, next, target_label, frequency, skip) ==
    [cls |-> "JumpNode", id |-> id, type |-> Str("jump"),
     editor_position |-> editor_position, next |-> next,
     target_label |-> target_label, frequency |-> frequency, skip |-> skip]

SettingNode(id, editor_position, next, setting_key, setting_value) ==
    [cls |-> "SettingNode", id |-> id, type |-> Str("setting"),
     editor_position |-> editor_position, next |-> next,
     setting_key |-> setting_key, setting_value |-> setting_value]

RoutineMetadata(name, description, author, version, map_name, created, modified) ==
    [name |-> name, description |-> description, author |-> author,
     version |-> version, map_name |-> map_name, created |-> created,
     modified |-> modified]

RoutineFlow(metadata, nodes, start_node) ==
    [metadata |-> metadata, nodes |-> nodes, start_node |-> start_node]

----------------------------------------------------------------------------
(* routine_schema.py : RoutineFlow.get_node / add_node / remove_node /     *)
(* connect_nodes.                                                          *)

\* position of the first node with that id, 0 when there is none
get_node_index(R, node_id) ==
    IF \E i \in DOMAIN R.nodes : R.nodes[i].id = node_id
    THEN CHOOSE i \in DOMAIN R.nodes :
            /\ R.nodes[i].id = node_id
            /\ \A j \in 1..(i - 1) : R.nodes[j].id # node_id
    ELSE 0

\* a lookup that returns the last match
get_node_last(R, node_id) ==
    IF \A i \in DOMAIN R.nodes : R.nodes[i].id # node_id THEN PyNone
    ELSE R.nodes[CHOOSE i \in DOMAIN R.nodes :
                    /\ R.nodes[i].id = node_id
                    /\ \A j \in (i + 1)..Len(R.nodes) : R.nodes[j].id # node_id]

get_node(R, node_id) ==
    IF get_node_index(R, node_id) = 0 THEN PyNone
    ELSE R.nodes[get_node_index(R, node_id)]

\* an add_node that wires the previous last node to the new one
add_node_linked(R, node) ==
    [R EXCEPT !.nodes =
        Append([i \in DOMAIN @ |-> IF i = Len(@) THEN [@[i] EXCEPT !.next = node.id]
                                   ELSE @[i]],
               node)]

add_node(R, node) == [R EXCEPT !.nodes = Append(@, node)]

\* a remove_node that forgets the reference clean-up
remove_node_keep_refs(R, node_id) ==
    [R EXCEPT !.nodes = SelectSeq(@, LAMBDA n : n.id # node_id)]

\* a remove_node that moves the start to the first node left when the start
\* node is removed
remove_node_restart(R, node_id) ==
    LET kept == SelectSeq(R.nodes, LAMBDA n : n.id # node_id)
    IN  [R EXCEPT !.nodes =
            [i \in 1..Len(kept) |->
                IF kept[i].next = node_id
                THEN [kept[i] EXCEPT !.next = None]
                ELSE kept[i]],
                  !.start_node = IF @ = node_id /\ kept # <<>> /\ Len(kept) < Len(R.nodes)
                                 THEN kept[1].id ELSE @]

\* a remove_node that also forgets the start when it names the removed id
remove_node_reset_start(R, node_id) ==
    LET kept == SelectSeq(R.nodes, LAMBDA n : n.id # node_id)
    IN  [R EXCEPT !.nodes =
            [i \in 1..Len(kept) |->
                IF kept[i].next = node_id
                THEN [kept[i] EXCEPT !.next = None]
                ELSE kept[i]],
                  !.start_node = IF @ = node_id THEN None ELSE @]

remove_node(R, node_id) ==
    LET kept == SelectSeq(R.nodes, LAMBDA n : n.id # node_id)
    IN  [R EXCEPT !.nodes =
            [i \in 1..Len(kept) |->
                IF kept[i].next = node_id
                THEN [kept[i] EXCEPT !.next = None]
                ELSE kept[i]]]

\* a connect_nodes that makes to_id the start when from_id is absent
connect_nodes_or_start(R, from_id, to_id) ==
    IF get_node_index(R, from_id) # 0
    THEN [R EXCEPT !.nodes[get_node_index(R, from_id)].next = to_id]
    ELSE [R EXCEPT !.start_node = to_id]

\* a connect_nodes that links only to an existing node
connect_nodes_checked(R, from_id, to_id) ==
    IF get_node_index(R, from_id) # 0 /\ get_node_index(R, to_id) # 0
    THEN [R EXCEPT !.nodes[get_node_index(R, from_id)].next = to_id]
    ELSE R

connect_nodes(R, from_id, to_id) ==
    IF get_node_index(R, from_id) # 0
    THEN [R EXCEPT !.nodes[get_node_index(R, from_id)].next = to_id]
    ELSE R

----------------------------------------------------------------------------
(* routine_schema.py : serialization.  A JSON document is modelled as the  *)
(* dictionary json.loads returns for it (json.dumps / json.loads are       *)
(* inverse to each other on strings, numbers, booleans, None, lists and    *)
(* string-keyed dicts); a dictionary is a function on its keys.  What      *)
(* to_dict and from_dict do is modelled: to_dict forgets the class,        *)
(* from_dict picks the class from the type tag and calls its constructor.  *)

\* the dataclass fields of each node class
BaseFields == {"id", "type", "editor_position", "next"}

ClassFields(cls) ==
    CASE cls = "PointNode" ->
            BaseFields \cup {"game_position", "commands", "frequency", "skip", "adjust"}
      [] cls = "LabelNode" -> BaseFields \cup {"label"}
      [] cls = "JumpNode" -> BaseFields \cup {"target_label", "frequency", "skip"}
      [] cls = "SettingNode" -> BaseFields \cup {"setting_key", "setting_value"}
      [] OTHER -> BaseFields

\* fields without default: the constructor raises TypeError without them
RequiredFields == {"id", "type", "editor_position"}

\* the declared default of a field
FieldDefault(k) ==
    CASE k = "next" -> None
      [] k = "game_position" -> <<>>
      [] k = "commands" -> <<>>
      [] k = "frequency" -> 1
      [] k = "skip" -> FALSE
      [] k = "adjust" -> FALSE
      [] k = "label" -> <<>>
      [] k = "target_label" -> <<>>
      [] k = "setting_key" -> <<>>
      [] k = "setting_value" -> PyNone

\* the type __post_init__ assigns, whatever was passed
PostInitType(cls, type) ==
    CASE cls = "PointNode" -> Str("point")
      [] cls = "LabelNode" -> Str("label")
      [] cls = "JumpNode" -> Str("jump")
      [] cls = "SettingNode" -> Str("setting")
      [] OTHER -> type

\* dataclasses.asdict on a node (PointNode.to_dict re-serializes commands)
node_to_dict(node) == [k \in (DOMAIN node) \ {"cls"} |-> node[k]]

\* RoutineFlow.to_dict
to_dict(R) ==
    [metadata |-> R.metadata,
     nodes |-> [i \in DOMAIN R.nodes |-> node_to_dict(R.nodes[i])],
     start_node |-> R.start_node]

\* a dispatch that takes every unrecognized tag for a label
ClassOfType_label_default(node_type) ==
    CASE node_type = Str("point") -> "PointNode"
      [] node_type = Str("jump") -> "JumpNode"
      [] node_type = Str("setting") -> "SettingNode"
      [] OTHER -> "LabelNode"

\* the class from_dict dispatches to
ClassOfType(node_type) ==
    CASE node_type = Str("point") -> "PointNode"
      [] node_type = Str("label") -> "LabelNode"
      [] node_type = Str("jump") -> "JumpNode"
      [] node_type = Str("setting") -> "SettingNode"
      [] OTHER -> "RoutineNode"

\* CommandData.from_dict
command_from_dict(data) ==
    CommandData(data.type, IF "params" \in DOMAIN data THEN data.params ELSE <<>>)

\* whether <Class>.from_dict(data) raises (KeyError on a missing key that is
\* indexed, TypeError from cls(**data) on a missing or an unexpected field)
node_from_dict_raises(data) ==
    \/ "type" \notin DOMAIN data
    \/ "editor_position" \notin DOMAIN data
    \/ {"x", "y"} \ (DOMAIN data.editor_position) # {}
    \/ RequiredFields \ (DOMAIN data) # {}
    \/ (DOMAIN data) \ ClassFields(ClassOfType(data.type)) # {}
    \/ /\ ClassOfType(data.type) = "PointNode"
       /\ "commands" \in DOMAIN data
       /\ \E i \in DOMAIN data.commands : "type" \notin DOMAIN data.commands[i]

\* a from_dict that always builds the base class
node_from_dict_base_only(data) ==
    [k \in BaseFields \cup {"cls"} |->
        IF k = "cls" THEN "RoutineNode"
        ELSE IF k = "editor_position"
             THEN NodePosition(data.editor_position.x, data.editor_position.y)
        ELSE IF k \in DOMAIN data THEN data[k]
        ELSE FieldDefault(k)]

\* <Class>.from_dict(data) when it does not raise
node_from_dict(data) ==
    LET cls == ClassOfType(data.type)
        field(k) ==
            IF k = "cls" THEN cls
            ELSE IF k = "type" THEN PostInitType(cls, data.type)
            ELSE IF k = "editor_position"
                 THEN NodePosition(data.editor_position.x, data.editor_position.y)
            ELSE IF k = "commands" /\ k \in DOMAIN data
                 THEN [i \in DOMAIN data.commands |-> command_from_dict(data.commands[i])]
            ELSE IF k \in DOMAIN data THEN data[k]
            ELSE FieldDefault(k)
    IN  [k \in ClassFields(cls) \cup {"cls"} |-> field(k)]

MetadataFields ==
    {"name", "description", "author", "version", "map_name", "created", "modified"}

MetadataDefault(k) ==
    CASE k = "name" -> Str("Untitled Routine")
      [] k = "version" -> Str("1.0")
      [] OTHER -> <<>>

\* whether RoutineFlow.from_dict(data) raises
from_dict_raises(data) ==
    \/ {"metadata", "nodes", "start_node"} \ (DOMAIN data) # {}
    \/ (DOMAIN data.metadata) \ MetadataFields # {}
    \/ \E i \in DOMAIN data.nodes : node_from_dict_raises(data.nodes[i])

\* RoutineFlow.from_dict(data) when it does not raise
from_dict(data) ==
    RoutineFlow(
        [k \in MetadataFields |->
            IF k \in DOMAIN data.metadata THEN data.metadata[k] ELSE MetadataDefault(k)],
        [i \in DOMAIN data.nodes |-> node_from_dict(data.nodes[i])],
        data.start_node)

\* no file at that path
NoFile == [absent |-> TRUE]

\* a file that holds no JSON text at all
NotJson == [garbage |-> TRUE]

\* a file open(filepath, 'w') has truncated and nothing was written to
EmptyFile == [garbage |-> TRUE, empty |-> TRUE]

\* a load that keeps the nodes read before the one that fails
load_partial(file) ==
    IF file = NoFile THEN [ok |-> FALSE, error |-> "FileNotFoundError"]
    ELSE IF file \in {NotJson, EmptyFile} THEN [ok |-> FALSE, error |-> "JSONDecodeError"]
    ELSE IF {"metadata", "nodes", "start_node"} \ (DOMAIN file) # {}
    THEN [ok |-> FALSE, error |-> "KeyError/TypeError"]
    ELSE LET good == {k \in 0..Len(file.nodes) :
                        \A i \in 1..k : ~node_from_dict_raises(file.nodes[i])}
             k == CHOOSE m \in good : \A n \in good : n <= m
         IN  [ok |-> TRUE,
              value |-> RoutineFlow([f \in MetadataFields |-> MetadataDefault(f)],
                            [i \in 1..k |-> node_from_dict(file.nodes[i])],
                            file.start_node)]

\* RoutineFlow.load(filepath): the routine, or the exception raised
load(file) ==
    IF file = NoFile THEN [ok |-> FALSE, error |-> "FileNotFoundError"]
    ELSE IF file \in {NotJson, EmptyFile} THEN [ok |-> FALSE, error |-> "JSONDecodeError"]
    ELSE IF from_dict_raises(file) THEN [ok |-> FALSE, error |-> "KeyError/TypeError"]
    ELSE [ok |-> TRUE, value |-> from_dict(file)]

\* the file RoutineFlow.save(filepath) leaves when nothing fails
save(R) == to_dict(R)

\* whether json.dumps(self.to_dict()) raises TypeError
to_json_raises(R) ==
    \E i \in DOMAIN R.nodes :
        R.nodes[i].cls = "SettingNode" /\ R.nodes[i].setting_value = PyObject

----------------------------------------------------------------------------
(* String operations used by the converter.                                *)

\* str.lstrip / the csv reader's skipinitialspace: drop leading blanks
RECURSIVE LStrip(_)
LStrip(s) == IF s # <<>> /\ Head(s) = " " THEN LStrip(Tail(s)) ELSE s

RECURSIVE RStrip(_)
RStrip(s) ==
    IF s # <<>> /\ s[Len(s)] = " " THEN RStrip(SubSeq(s, 1, Len(s) - 1)) ELSE s

\* str.strip()
Strip(s) == RStrip(LStrip(s))

\* the lower-case form of a word; words not listed hold no upper-case letter
LowerTok(w) ==
    CASE w = "True" -> "true"
      [] w = "TRUE" -> "true"
      [] w = "False" -> "false"
      [] w = "POINT" -> "point"
      [] w = "Point" -> "point"
      [] w = "LABEL" -> "label"
      [] w = "Jump" -> "jump"
      [] w = "Goto" -> "goto"
      [] w = "GOTO" -> "goto"
      [] w = "Setting" -> "setting"
      [] w = "Attack" -> "attack"
      [] OTHER -> w

\* a lower() that leaves the text as it is
Lower_identity(s) == s

\* str.lower()
Lower(s) == [i \in DOMAIN s |-> LowerTok(s[i])]

\* s.startswith(prefix)
StartsWith(s, prefix) ==
    Len(s) >= Len(prefix) /\ SubSeq(s, 1, Len(prefix)) = prefix

\* index of the first token equal to tok, 0 when there is none
RECURSIVE FindFrom(_, _, _)
FindFrom(s, tok, i) ==
    IF i > Len(s) THEN 0
    ELSE IF s[i] = tok THEN i
    ELSE FindFrom(s, tok, i + 1)

Find(s, tok) == FindFrom(s, tok, 1)

\* s.split(tok): the pieces between the occurrences of tok
RECURSIVE Split(_, _)
Split(s, tok) ==
    IF Find(s, tok) = 0 THEN <<s>>
    ELSE <<SubSeq(s, 1, Find(s, tok) - 1)>>
         \o Split(SubSeq(s, Find(s, tok) + 1, Len(s)), tok)

\* sep.join(parts)
RECURSIVE Join(_, _)
Join(parts, sep) ==
    IF parts = <<>> THEN <<>>
    ELSE IF Len(parts) = 1 THEN parts[1]
    ELSE parts[1] \o sep \o Join(Tail(parts), sep)

\* the lines a text file yields: a final newline ends the last line, it
\* does not open another one
FileLines(text) ==
    IF text = <<>> THEN <<>>
    ELSE LET parts == Split(text, "\n")
         IN  IF parts[Len(parts)] = <<>>
             THEN SubSeq(parts, 1, Len(parts) - 1)
             ELSE parts

\* csv.reader(f, skipinitialspace=True): an empty line is a row without
\* cells; the blanks that follow a delimiter (or open the line) are dropped
CsvReader(text) ==
    LET lines == FileLines(text)
        cells(line) == LET raw == Split(line, ",")
                       IN  [i \in DOMAIN raw |-> LStrip(raw[i])]
    IN  [i \in DOMAIN lines |-> IF lines[i] = <<>> THEN <<>> ELSE cells(lines[i])]

\* four blanks
Indent4 == <<" ", " ", " ", " ">>

\* decimal numerals the model reads and writes
Numerals == {0, 1, 2, 100, 200, 300}

IsIntLiteral(s) == \E n \in Numerals : Strip(s) = <<ToString(n)>>

IntLiteral(s) == CHOOSE n \in Numerals : Strip(s) = <<ToString(n)>>

IsFloatLiteral(s) ==
    \/ IsIntLiteral(s)
    \/ \E n \in Numerals : Strip(s) = <<ToString(n) \o ".0">>

FloatLiteral(s) ==
    IF IsIntLiteral(s) THEN IntLiteral(s)
    ELSE CHOOSE n \in Numerals : Strip(s) = <<ToString(n) \o ".0">>

\* str(v) as an f-string renders it
Format(v) ==
    CASE v.t = "str" -> v.s
      [] v.t = "int" -> <<ToString(v.i)>>
      [] v.t = "float" -> <<ToString(v.f) \o ".0">>
      [] v.t = "bool" -> IF v.b THEN <<"True">> ELSE <<"False">>
      [] v.t = "none" -> <<"None">>

----------------------------------------------------------------------------
(* Python dicts with string keys: a sequence of key/value pairs in         *)
(* insertion order, keys pairwise distinct.                                *)

DictHas(d, k) == \E i \in DOMAIN d : d[i].k = k

DictGet(d, k, default) ==
    IF DictHas(d, k) THEN d[CHOOSE i \in DOMAIN d : d[i].k = k].v ELSE default

DictSet(d, k, v) ==
    IF DictHas(d, k)
    THEN [i \in DOMAIN d |-> IF d[i].k = k THEN [k |-> k, v |-> v] ELSE d[i]]
    ELSE Append(d, [k |-> k, v |-> v])

\* d1 == d2 for dicts
DictEq(d1, d2) == Range(d1) = Range(d2)

----------------------------------------------------------------------------
(* routine_converter.py : RoutineConverter._parse_params and csv_to_json.  *)

\* key, value = item.split('=', 1); params[key.strip()] = value.strip()
RECURSIVE parse_params_into(_, _)
parse_params_into(items, params) ==
    IF items = <<>> THEN params
    ELSE LET item == Head(items)
             eq == Find(item, "=")
         IN  IF eq # 0
             THEN parse_params_into(Tail(items),
                      DictSet(params, Strip(SubSeq(item, 1, eq - 1)),
                              Strip(SubSeq(item, eq + 1, Len(item)))))
             ELSE parse_params_into(Tail(items), params)

parse_params(items) == parse_params_into(items, <<>>)

\* the dict as Python holds it: every value a str object
StrValues(params) == [i \in DOMAIN params |-> [k |-> params[i].k, v |-> PyStr(params[i].v)]]

x_position0 == 100

y_position == 100

x_spacing == 200

\* the locals of csv_to_json before the first row
CsvStart ==
    [nodes |-> <<>>, node_counter |-> 0, previous_node_id |-> None,
     start_node_id |-> None, current_point_node |-> 0,
     x_position |-> x_position0, error |-> FALSE]

\* the row is taken as a command of the current point
IsCommandRow(row, first_item) ==
    \/ StartsWith(first_item, Indent4)
    \/ (StartsWith(row[1], <<" ">>) /\ first_item = <<>>)

\* the command branch: append to the commands of the current point, if any
CsvCommandRow(st, row) ==
    IF st.current_point_node # 0
    THEN [st EXCEPT !.nodes[st.current_point_node].commands =
             Append(@, CommandData(Lower(Strip(row[1])),
                                   StrValues(parse_params(Tail(row)))))]
    ELSE st

\* a chaining that links from the first node instead of the previous one
CsvChain_from_first(st, node, current_point) ==
    LET appended == Append(st.nodes, node)
        linked == IF st.previous_node_id # None /\ Len(appended) > 1
                  THEN [appended EXCEPT ![1].next = node.id]
                  ELSE appended
    IN  [st EXCEPT !.nodes = linked,
                   !.start_node_id = IF @ = None THEN node.id ELSE @,
                   !.previous_node_id = node.id,
                   !.current_point_node = current_point,
                   !.x_position = @ + x_spacing]

\* "Connect to previous node" and the bookkeeping that ends a declaration row
CsvChain(st, node, current_point) ==
    LET appended == Append(st.nodes, node)
        linked == IF st.previous_node_id # None /\ Len(appended) > 1
                  THEN [appended EXCEPT ![Len(appended) - 1].next = node.id]
                  ELSE appended
    IN  [st EXCEPT !.nodes = linked,
                   !.start_node_id = IF @ = None THEN node.id ELSE @,
                   !.previous_node_id = node.id,
                   !.current_point_node = current_point,
                   !.x_position = @ + x_spacing]

\* the declaration branch, after the id has been drawn from the counter
CsvDeclarationRow(st0, row) ==
    LET symbol == Lower(Strip(row[1]))
        params == parse_params(Tail(row))
        node_id == NodeIdOf(st0.node_counter)
        st == [st0 EXCEPT !.node_counter = @ + 1]
        pos == NodePosition(st.x_position, y_position)
        \* float(0) and int(1), the defaults, are what float("0") and int("1") are
        xs == DictGet(params, Str("x"), Str("0"))
        ys == DictGet(params, Str("y"), Str("0"))
        fs == DictGet(params, Str("frequency"), Str("1"))
        skip == Lower(DictGet(params, Str("skip"), Str("False"))) = Str("true")
        adjust == Lower(DictGet(params, Str("adjust"), Str("False"))) = Str("true")
    IN  CASE symbol \in {Str("*"), Str("point")} ->
               IF IsFloatLiteral(xs) /\ IsFloatLiteral(ys) /\ IsIntLiteral(fs)
               THEN CsvChain(st,
                        PointNode(node_id, pos, None,
                                  [x |-> PyFloat(FloatLiteral(xs)),
                                   y |-> PyFloat(FloatLiteral(ys))],
                                  <<>>, IntLiteral(fs), skip, adjust),
                        Len(st.nodes) + 1)
               ELSE [st EXCEPT !.error = TRUE]
          [] symbol \in {Str("@"), Str("label")} ->
               CsvChain(st,
                   LabelNode(node_id, pos, None,
                       DictGet(params, Str("label"),
                               <<"label_", ToString(st.node_counter)>>)),
                   0)
          [] symbol \in {Str(">"), Str("jump"), Str("goto")} ->
               IF IsIntLiteral(fs)
               THEN CsvChain(st,
                        JumpNode(node_id, pos, None,
                                 DictGet(params, Str("label"), <<>>),
                                 IntLiteral(fs), skip),
                        0)
               ELSE [st EXCEPT !.error = TRUE]
          [] symbol \in {Str("$"), Str("setting")} ->
               CsvChain(st,
                   SettingNode(node_id, pos, None,
                               DictGet(params, Str("target"), <<>>),
                               PyStr(DictGet(params, Str("value"), <<>>))),
                   0)
          [] OTHER -> st

\* a loop body in which a row that declares nothing still moves the layout
CsvRow_shift(st, row) ==
    IF row = <<>> \/ Strip(row[1]) = <<>> THEN st
    ELSE IF IsCommandRow(row, Strip(row[1])) THEN CsvCommandRow(st, row)
    ELSE [CsvDeclarationRow(st, row) EXCEPT !.x_position = st.x_position + x_spacing]

\* a loop body that hands every row with an unknown symbol to the first
\* node as a command
CsvRow_commands_to_first(st, row) ==
    IF row = <<>> \/ Strip(row[1]) = <<>> THEN st
    ELSE IF /\ Lower(Strip(row[1])) \notin
                    {Str("*"), Str("point"), Str("@"), Str("label"), Str(">"),
                     Str("jump"), Str("goto"), Str("$"), Str("setting")}
            /\ st.nodes # <<>>
            /\ st.nodes[1].cls = "PointNode"
    THEN [st EXCEPT !.nodes[1].commands = Append(@, CommandData(Lower(Strip(row[1])), <<>>)),
                    !.node_counter = @ + 1]
    ELSE CsvDeclarationRow(st, row)

\* the body of "for row in csv_reader"
CsvRow(st, row) ==
    IF row = <<>> \/ Strip(row[1]) = <<>> THEN st
    ELSE IF IsCommandRow(row, Strip(row[1])) THEN CsvCommandRow(st, row)
    ELSE CsvDeclarationRow(st, row)

\* the loop; a ValueError raised by float() / int() leaves it at once
RECURSIVE CsvRows(_, _)
CsvRows(st, rows) ==
    IF rows = <<>> \/ st.error THEN st
    ELSE CsvRows(CsvRow(st, Head(rows)), Tail(rows))

\* csv_to_json up to the construction of the RoutineFlow; metadata is the
\* one built from the file name and the clock
CsvMetadata ==
    RoutineMetadata(Str("routine"), <<"Converted from ", "routine.csv">>,
                    Str("AutoMaple"), Str("1.0"), <<>>, Str("now"), Str("now"))

\* a conversion that returns what was parsed before the bad row
csv_to_json_keep_parsed(text) ==
    LET st == CsvRows(CsvStart, CsvReader(text))
    IN  [ok |-> TRUE,
         value |-> RoutineFlow(CsvMetadata, st.nodes,
                               IF st.nodes # <<>> THEN st.nodes[1].id ELSE NodeIdOf(0))]

\* a conversion that always starts the routine at node_0
csv_to_json_start_zero(text) ==
    LET st == CsvRows(CsvStart, CsvReader(text))
    IN  IF st.error THEN [ok |-> FALSE, error |-> "ValueError"]
        ELSE [ok |-> TRUE, value |-> RoutineFlow(CsvMetadata, st.nodes, NodeIdOf(0))]

csv_to_json(text) ==
    LET st == CsvRows(CsvStart, CsvReader(text))
        start == IF ~Truthy(st.start_node_id) /\ st.nodes # <<>>
                 THEN st.nodes[1].id ELSE st.start_node_id
    IN  IF st.error THEN [ok |-> FALSE, error |-> "ValueError"]
        ELSE [ok |-> TRUE,
              value |-> RoutineFlow(CsvMetadata, st.nodes,
                                    IF Truthy(start) THEN start ELSE NodeIdOf(0))]

----------------------------------------------------------------------------
(* routine_converter.py : json_to_csv.  The while loop that follows the    *)
(* next pointers is taken one iteration at a time (J2cWalk below); the     *)
(* rest are the operators here.  ordered_nodes holds positions of          *)
(* routine.nodes, a position standing for the node object at it.           *)

\* the condition of "while current_id and current_id not in visited"
WalkContinues(cur, vis) == Truthy(cur) /\ cur \notin vis

\* "Add any unvisited nodes at the end"
RECURSIVE UnvisitedFrom(_, _, _)
UnvisitedFrom(R, vis, i) ==
    IF i > Len(R.nodes) THEN <<>>
    ELSE IF R.nodes[i].id \notin vis THEN <<i>> \o UnvisitedFrom(R, vis, i + 1)
    ELSE UnvisitedFrom(R, vis, i + 1)

\* an ordering step that ends with the walk
AppendUnvisited_none(R, vis, ordered) == ordered

AppendUnvisited(R, vis, ordered) == ordered \o UnvisitedFrom(R, vis, 1)

\* the loop as a whole, for a routine whose walk is known to end
RECURSIVE NextWalkFrom(_, _, _)
NextWalkFrom(R, cur, vis) ==
    IF ~WalkContinues(cur, vis) \/ get_node_index(R, cur) = 0 THEN <<>>
    ELSE <<get_node_index(R, cur)>>
         \o NextWalkFrom(R, R.nodes[get_node_index(R, cur)].next, vis \cup {cur})

NextWalk(R) == NextWalkFrom(R, R.start_node, {})

\* node.game_position["x"] / ["y"] raises KeyError
EmitRaises(node) ==
    node.cls = "PointNode" /\ {"x", "y"} \ (DOMAIN node.game_position) # {}

\* a command line without its indentation
CommandLine_flat(cmd) == cmd.type

\* the line of one command of a point
CommandLine(cmd) ==
    IF cmd.params # <<>>
    THEN Join(<<Indent4 \o cmd.type>>
              \o [i \in DOMAIN cmd.params |->
                    cmd.params[i].k \o <<"=">> \o Format(cmd.params[i].v)],
              <<",", " ">>)
    ELSE Indent4 \o cmd.type

\* the lines "for node in ordered_nodes" appends for one node
NodeLines(node) ==
    CASE node.cls = "PointNode" ->
            <<Join(<<Str("*"),
                     <<"x", "=">> \o Format(node.game_position.x),
                     <<"y", "=">> \o Format(node.game_position.y)>>
                   \o (IF node.frequency # 1
                       THEN <<<<"frequency", "=", ToString(node.frequency)>>>>
                       ELSE <<>>)
                   \o (IF node.skip THEN <<<<"skip", "=", "True">>>> ELSE <<>>)
                   \o (IF node.adjust THEN <<<<"adjust", "=", "True">>>> ELSE <<>>),
                   <<",", " ">>)>>
            \o [i \in DOMAIN node.commands |-> CommandLine(node.commands[i])]
      [] node.cls = "LabelNode" ->
            <<<<>>, <<"@", ",", " ", "label", "=">> \o node.label>>
      [] node.cls = "JumpNode" ->
            <<Join(<<Str(">"), <<"label", "=">> \o node.target_label>>
                   \o (IF node.frequency # 1
                       THEN <<<<"frequency", "=", ToString(node.frequency)>>>>
                       ELSE <<>>)
                   \o (IF node.skip THEN <<<<"skip", "=", "True">>>> ELSE <<>>),
                   <<",", " ">>)>>
      [] node.cls = "SettingNode" ->
            <<<<"$", ",", " ", "target", "=">> \o node.setting_key
              \o <<",", " ", "value", "=">> \o Format(node.setting_value)>>
      [] OTHER -> <<>>

RECURSIVE EmitLines(_, _)
EmitLines(R, ordered) ==
    IF ordered = <<>> THEN <<>>
    ELSE NodeLines(R.nodes[Head(ordered)]) \o EmitLines(R, Tail(ordered))

\* csv_content = '\n'.join(lines) + '\n'
CsvContent(R, ordered) == Join(EmitLines(R, ordered), <<"\n">>) \o <<"\n">>

----------------------------------------------------------------------------
(* Routines the model API is exercised on.                                 *)

IdA == Str("a")

IdB == Str("b")

IdGhost == Str("ghost")

DefaultMetadata ==
    RoutineMetadata(Str("Untitled Routine"), <<>>, <<>>, Str("1.0"), <<>>, <<>>, <<>>)

AttackCmd == CommandData(Str("attack"), <<>>)

ApiNexts == {None, IdA, IdB, IdGhost}

\* nodes with ids a and b; id a is carried by a point and by a jump, so a
\* routine can hold the same id twice with different payloads
ApiNodes ==
    {PointNode(IdA, NodePosition(100, 100), n,
               [x |-> PyInt(100), y |-> PyInt(200)], <<AttackCmd>>, 1, FALSE, FALSE)
        : n \in ApiNexts}
    \cup {LabelNode(IdB, NodePosition(300, 100), n, Str("loop_start")) : n \in ApiNexts}
    \cup {JumpNode(IdA, NodePosition(500, 100), n, Str("loop_start"), 1, FALSE)
        : n \in ApiNexts}

SeqsUpTo(S, k) == UNION {[1..m -> S] : m \in 0..k}

ApiRoutines ==
    {RoutineFlow(DefaultMetadata, ns, IdA) : ns \in SeqsUpTo(ApiNodes, MaxNodes)}

ApiIds == {IdA, IdB, IdGhost}

NoOp == [name |-> "none", args |-> <<>>]

Idle ==
    /\ routine_flow = PyNone /\ flow_nodes = <<>> /\ selected_node = PyNone
    /\ canvas = {} /\ csv_file = None /\ json_file = NoFile /\ routine_dict = PyNone
    /\ pc = "idle" /\ current_id = None /\ visited = {} /\ ordered_nodes = <<>>

InitModel ==
    /\ routine \in ApiRoutines
    /\ op = NoOp /\ pre = PyNone /\ ret = PyNone
    /\ Idle

UnchangedEditor == UNCHANGED <<routine_flow, flow_nodes, selected_node, canvas>>

UnchangedFiles == UNCHANGED <<csv_file, json_file, routine_dict>>

UnchangedWalk == UNCHANGED <<pc, current_id, visited, ordered_nodes>>

CallGetNode ==
    \E id \in ApiIds :
        /\ op = NoOp
        /\ op' = [name |-> "get_node", args |-> <<id>>]
        /\ pre' = routine
        /\ ret' = get_node(routine, id)
        /\ UNCHANGED routine
        /\ UnchangedEditor /\ UnchangedFiles /\ UnchangedWalk

CallAddNode ==
    \E node \in ApiNodes :
        /\ op = NoOp
        /\ Len(routine.nodes) < MaxNodes
        /\ op' = [name |-> "add_node", args |-> <<node>>]
        /\ pre' = routine
        /\ routine' = add_node(routine, node)
        /\ ret' = PyNone
        /\ UnchangedEditor /\ UnchangedFiles /\ UnchangedWalk

CallRemoveNode ==
    \E id \in ApiIds :
        /\ op = NoOp
        /\ op' = [name |-> "remove_node", args |-> <<id>>]
        /\ pre' = routine
        /\ routine' = remove_node(routine, id)
        /\ ret' = PyNone
        /\ UnchangedEditor /\ UnchangedFiles /\ UnchangedWalk

CallConnectNodes ==
    \E from_id \in ApiIds, to_id \in ApiIds :
        /\ op = NoOp
        /\ op' = [name |-> "connect_nodes", args |-> <<from_id, to_id>>]
        /\ pre' = routine
        /\ routine' = connect_nodes(routine, from_id, to_id)
        /\ ret' = PyNone
        /\ UnchangedEditor /\ UnchangedFiles /\ UnchangedWalk

NextModel == CallGetNode \/ CallAddNode \/ CallRemoveNode \/ CallConnectNodes

SpecModel == InitModel /\ [][NextModel]_vars

----------------------------------------------------------------------------
(* CSV files csv_to_json is run on.                                        *)

\* most rows of an enumerated CSV file
MaxRows == 3

Sep == <<",", " ">>

KV(k, v) == <<k, "=", v>>

\* "*, x=100, y=200"
LinePoint1 == Join(<<Str("*"), KV("x", "100"), KV("y", "200")>>, Sep)

\* "    attack"
LineAttack == Indent4 \o Str("attack")

\* "*, x=300, y=200, frequency=2"
LinePoint2 ==
    Join(<<Str("*"), KV("x", "300"), KV("y", "200"), KV("frequency", "2")>>, Sep)

\* "    buff"
LineBuff == Indent4 \o Str("buff")

\* "@, label=main_loop"
LineLabel == Join(<<Str("@"), KV("label", "main_loop")>>, Sep)

\* ">, label=main_loop"
LineJump == Join(<<Str(">"), KV("label", "main_loop")>>, Sep)

\* "$, target=k, value=v"
LineSetting == Join(<<Str("$"), KV("target", "k"), KV("value", "v")>>, Sep)

\* "    Attack, skill=fireball, junk"
LineCommandParams == Indent4 \o Join(<<Str("Attack"), KV("skill", "fireball"), Str("junk")>>, Sep)

\* "foo, x=1"
LineUnknown == Join(<<Str("foo"), KV("x", "1")>>, Sep)

\* "*, x=abc"
LineBadNumber == Join(<<Str("*"), KV("x", "abc")>>, Sep)

\* "POINT, skip=TRUE, adjust=true, frequency=0"
LinePointWord ==
    Join(<<Str("POINT"), KV("skip", "TRUE"), KV("adjust", "true"),
           KV("frequency", "0")>>, Sep)

\* ">, label=main_loop, frequency=2.0"
LineJumpBadFrequency ==
    Join(<<Str(">"), KV("label", "main_loop"), KV("frequency", "2.0")>>, Sep)

CsvLines ==
    {LinePoint1, LineAttack, LinePoint2, LineLabel, LineJump, LineSetting,
     LineCommandParams, LineUnknown, LineBadNumber, LinePointWord,
     LineJumpBadFrequency, <<>>}

TextOf(lines) == IF lines = <<>> THEN <<>> ELSE Join(lines, <<"\n">>) \o <<"\n">>

\* the CSV of test_converter
ExampleCsv ==
    TextOf(<<LinePoint1, LineAttack, LinePoint2, LineBuff, LineLabel, LineJump>>)

CsvInputs == {ExampleCsv} \cup {TextOf(ls) : ls \in SeqsUpTo(CsvLines, MaxRows)}

InitCsv ==
    /\ csv_file \in CsvInputs
    /\ routine = PyNone /\ routine_flow = PyNone /\ flow_nodes = <<>>
    /\ selected_node = PyNone /\ canvas = {} /\ json_file = NoFile /\ routine_dict = PyNone
    /\ op = NoOp /\ pre = PyNone /\ ret = PyNone
    /\ pc = "idle" /\ current_id = None /\ visited = {} /\ ordered_nodes = <<>>

\* csv_to_json(csv_filepath, output_filepath): output_filepath is given or not
CsvToJson ==
    \E output \in BOOLEAN :
        /\ csv_file # None
        /\ \/ op = NoOp /\ pc = "idle"
           \/ op.name = "json_to_csv" /\ pc = "done"
        /\ op' = [name |-> "csv_to_json", args |-> <<output>>]
        /\ pre' = csv_file
        /\ ret' = csv_to_json(csv_file)
        /\ routine' = IF ret'.ok THEN ret'.value ELSE routine
        /\ json_file' = IF ret'.ok /\ output THEN save(ret'.value) ELSE json_file
        /\ UNCHANGED <<csv_file, routine_dict>>
        /\ UnchangedEditor /\ UnchangedWalk

NextCsv == CsvToJson

SpecCsv == InitCsv /\ [][NextCsv]_vars

\* first cells of a row as a file can spell them, each with the node class
\* the symbol table of the format gives it ("none": not in the table)
SymbolCases ==
    {[cell |-> <<"*">>, kind |-> "PointNode"],
     [cell |-> <<"point">>, kind |-> "PointNode"],
     [cell |-> <<"POINT">>, kind |-> "PointNode"],
     [cell |-> <<"Point", " ">>, kind |-> "PointNode"],
     [cell |-> <<"@">>, kind |-> "LabelNode"],
     [cell |-> <<"label">>, kind |-> "LabelNode"],
     [cell |-> <<"LABEL">>, kind |-> "LabelNode"],
     [cell |-> <<">">>, kind |-> "JumpNode"],
     [cell |-> <<"jump">>, kind |-> "JumpNode"],
     [cell |-> <<"Jump", " ">>, kind |-> "JumpNode"],
     [cell |-> <<"goto">>, kind |-> "JumpNode"],
     [cell |-> <<"GOTO">>, kind |-> "JumpNode"],
     [cell |-> <<"$">>, kind |-> "SettingNode"],
     [cell |-> <<"setting">>, kind |-> "SettingNode"],
     [cell |-> <<"Setting">>, kind |-> "SettingNode"],
     [cell |-> <<"foo">>, kind |-> "none"],
     [cell |-> <<"points">>, kind |-> "none"],
     [cell |-> <<"#">>, kind |-> "none"]}

\* values of skip= and adjust= ("": the cell is left out), each with the
\* boolean the format gives it
BoolCases ==
    {[word |-> "", value |-> FALSE],
     [word |-> "true", value |-> TRUE],
     [word |-> "TRUE", value |-> TRUE],
     [word |-> "True", value |-> TRUE],
     [word |-> "false", value |-> FALSE],
     [word |-> "yes", value |-> FALSE],
     [word |-> "1", value |-> FALSE]}

\* the one-row file "<cell>, skip=<word>, adjust=<word>"
SymbolText(case, skip, adjust) ==
    TextOf(<<Join(<<case.cell>>
                  \o (IF skip.word # "" THEN <<KV("skip", skip.word)>> ELSE <<>>)
                  \o (IF adjust.word # "" THEN <<KV("adjust", adjust.word)>> ELSE <<>>),
                  Sep)>>)

InitCsvSymbols ==
    /\ csv_file \in {SymbolText(c, sk, ad) :
                        c \in SymbolCases, sk \in BoolCases, ad \in BoolCases}
    /\ routine = PyNone /\ routine_flow = PyNone /\ flow_nodes = <<>>
    /\ selected_node = PyNone /\ canvas = {} /\ json_file = NoFile /\ routine_dict = PyNone
    /\ op = NoOp /\ pre = PyNone /\ ret = PyNone
    /\ pc = "idle" /\ current_id = None /\ visited = {} /\ ordered_nodes = <<>>

SpecCsvSymbols == InitCsvSymbols /\ [][NextCsv]_vars

----------------------------------------------------------------------------
(* JSON files json_to_csv is run on, and json_to_csv step by step.         *)

Pos0 == NodePosition(100, 100)

FireballCmd == CommandData(Str("attack"), <<[k |-> Str("skill"), v |-> PyStr(Str("fireball"))]>>)

BuffCmd == CommandData(Str("buff"), <<>>)

\* node payloads: the constructor applied to id and next gives the node
Payloads == 1..9

PayloadNode(p, id, next) ==
    CASE p = 1 -> PointNode(id, Pos0, next, [x |-> PyFloat(100), y |-> PyFloat(200)],
                            <<AttackCmd>>, 1, FALSE, FALSE)
      [] p = 2 -> PointNode(id, Pos0, next, [x |-> PyInt(0), y |-> PyInt(0)],
                            <<>>, 2, TRUE, TRUE)
      [] p = 3 -> PointNode(id, Pos0, next, [x |-> PyFloat(300), y |-> PyFloat(200)],
                            <<FireballCmd, BuffCmd>>, 1, FALSE, FALSE)
      [] p = 4 -> LabelNode(id, Pos0, next, Str("main_loop"))
      [] p = 5 -> JumpNode(id, Pos0, next, Str("main_loop"), 2, TRUE)
      [] p = 6 -> SettingNode(id, Pos0, next, Str("k"), PyStr(Str("v")))
      [] p = 7 -> SettingNode(id, Pos0, next, Str("k"), PyBool(TRUE))
      [] p = 8 -> RoutineNode(id, Str("condition"), Pos0, next)
      [] p = 9 -> PointNode(id, Pos0, next, <<>>, <<>>, 1, FALSE, FALSE)

\* a chain node_0 -> node_1 -> ... with the payloads ps and start_node st
ChainRoutine(ps, st) ==
    RoutineFlow(DefaultMetadata,
        [i \in DOMAIN ps |->
            PayloadNode(ps[i], NodeIdOf(i - 1),
                        IF i < Len(ps) THEN NodeIdOf(i) ELSE None)],
        st)

\* every arrangement of ids and next links (cycles, orphans, dangling
\* links, repeated ids) over a start_node that exists, dangles or is empty
StructNodes == {n \in ApiNodes : n.cls # "JumpNode"}

StructRoutines ==
    {RoutineFlow(DefaultMetadata, ns, st) :
        ns \in SeqsUpTo(StructNodes, MaxNodes), st \in {IdA, IdGhost, <<>>}}

ConvRoutines ==
    StructRoutines
    \cup {ChainRoutine(ps, st) :
            ps \in SeqsUpTo(Payloads, MaxNodes), st \in {NodeIdOf(0), <<>>}}

JsonInputs == {save(R) : R \in ConvRoutines} \cup {NotJson}

InitConvert ==
    /\ json_file \in JsonInputs /\ routine_dict = PyNone
    /\ csv_file = None
    /\ routine = PyNone /\ routine_flow = PyNone /\ flow_nodes = <<>>
    /\ selected_node = PyNone /\ canvas = {}
    /\ op = NoOp /\ pre = PyNone /\ ret = PyNone
    /\ pc = "idle" /\ current_id = None /\ visited = {} /\ ordered_nodes = <<>>

\* routine = RoutineFlow.load(json_filepath) and the initialisation of the walk
J2cLoad ==
    /\ pc = "idle" /\ op = NoOp
    /\ op' = [name |-> "json_to_csv", args |-> <<>>]
    /\ pre' = json_file
    /\ IF load(json_file).ok
       THEN /\ routine' = load(json_file).value
            /\ visited' = {}
            /\ current_id' = routine'.start_node
            /\ ordered_nodes' = <<>>
            /\ pc' = "walk"
            /\ UNCHANGED ret
       ELSE /\ ret' = load(json_file)
            /\ pc' = "raised"
            /\ UNCHANGED <<routine, visited, current_id, ordered_nodes>>
    /\ UnchangedEditor /\ UnchangedFiles

\* one iteration of the while loop
J2cWalk ==
    /\ pc = "walk"
    /\ WalkContinues(current_id, visited)
    /\ IF get_node_index(routine, current_id) = 0
       THEN /\ pc' = "append"
            /\ UNCHANGED <<visited, ordered_nodes, current_id>>
       ELSE /\ visited' = visited \cup {current_id}
            /\ ordered_nodes' = Append(ordered_nodes, get_node_index(routine, current_id))
            /\ current_id' = routine.nodes[get_node_index(routine, current_id)].next
            /\ UNCHANGED pc
    /\ UNCHANGED <<routine, op, pre, ret>>
    /\ UnchangedEditor /\ UnchangedFiles

\* the loop is left and the unvisited nodes are added at the end
J2cAppend ==
    /\ \/ pc = "append"
       \/ pc = "walk" /\ ~WalkContinues(current_id, visited)
    /\ ordered_nodes' = AppendUnvisited(routine, visited, ordered_nodes)
    /\ pc' = "emit"
    /\ UNCHANGED <<routine, op, pre, ret, visited, current_id>>
    /\ UnchangedEditor /\ UnchangedFiles

\* the lines are built; the text is returned and, with output_filepath, written
J2cEmit ==
    \E output \in BOOLEAN :
        /\ pc = "emit"
        /\ IF \E i \in DOMAIN ordered_nodes : EmitRaises(routine.nodes[ordered_nodes[i]])
           THEN /\ ret' = [ok |-> FALSE, error |-> "KeyError"]
                /\ pc' = "raised"
                /\ UNCHANGED csv_file
           ELSE /\ ret' = [ok |-> TRUE, value |-> CsvContent(routine, ordered_nodes)]
                /\ pc' = "done"
                /\ csv_file' = IF output THEN ret'.value ELSE csv_file
        /\ UNCHANGED <<routine, op, pre, visited, current_id, ordered_nodes, json_file, routine_dict>>
        /\ UnchangedEditor

NextConvert == J2cLoad \/ J2cWalk \/ J2cAppend \/ J2cEmit \/ CsvToJson

SpecConvert == InitConvert /\ [][NextConvert]_vars

----------------------------------------------------------------------------
(* save followed by load.                                                  *)

\* most nodes in a hand-written JSON document
MaxDocNodes == 2

DocPos == [x |-> 100, y |-> 100]

\* the smallest node object from_dict accepts
DocNode(id, type) == [id |-> id, type |-> Str(type), editor_position |-> DocPos]

Without(d, k) == [f \in (DOMAIN d) \ {k} |-> d[f]]

With(d, k, v) == [f \in (DOMAIN d) \cup {k} |-> IF f = k THEN v ELSE d[f]]

\* node objects as a file can hold them: complete, minimal, with a legacy
\* type tag, with fields the class does not declare, with fields missing
DocNodes ==
    {node_to_dict(PayloadNode(1, IdA, IdB)),
     DocNode(IdA, "point"), DocNode(IdB, "label"), DocNode(IdA, "jump"),
     DocNode(IdB, "setting"), DocNode(IdB, "condition"),
     With(DocNode(IdB, "condition"), "label", Str("loop_start")),
     With(DocNode(IdA, "point"), "color", Str("red")),
     Without(DocNode(IdA, "point"), "id"),
     Without(DocNode(IdB, "label"), "type"),
     Without(DocNode(IdA, "jump"), "editor_position"),
     [DocNode(IdB, "label") EXCEPT !.editor_position = [x |-> 100]],
     With(DocNode(IdA, "point"), "commands", <<[params |-> <<>>]>>)}

\* documents: complete ones, ones with partial or unknown metadata, ones
\* with a top-level key missing
HandDocs ==
    UNION {
        LET full == [metadata |-> to_dict(RoutineFlow(DefaultMetadata, <<>>, <<>>)).metadata,
                     nodes |-> ns, start_node |-> IdA]
        IN  {full,
             [full EXCEPT !.metadata = [name |-> Str("farm")]],
             [full EXCEPT !.metadata = [name |-> Str("farm"), tags |-> <<>>]],
             Without(full, "metadata"), Without(full, "nodes"),
             Without(full, "start_node")}
        : ns \in SeqsUpTo(DocNodes, MaxDocNodes)}

\* a routine holding a setting whose value has no JSON encoding
UnserializableRoutine ==
    RoutineFlow(DefaultMetadata,
        <<LabelNode(IdB, Pos0, IdA, Str("loop_start")),
          SettingNode(IdA, Pos0, None, Str("k"), PyObject)>>,
        IdB)

\* the files there are before anything is saved
InitialFiles == {NoFile, NotJson} \cup HandDocs

\* a routine in hand and no usable file, or a file and no routine yet
InitJson ==
    /\ \/ /\ routine \in ConvRoutines \cup {UnserializableRoutine}
          /\ json_file \in {NoFile, NotJson}
       \/ /\ routine = PyNone
          /\ json_file \in HandDocs
    /\ csv_file = None /\ routine_dict = PyNone
    /\ routine_flow = PyNone /\ flow_nodes = <<>>
    /\ selected_node = PyNone /\ canvas = {}
    /\ op = NoOp /\ pre = PyNone /\ ret = PyNone
    /\ pc = "idle" /\ current_id = None /\ visited = {} /\ ordered_nodes = <<>>

\* routine.save(filepath) when to_json returns; pre keeps the object saved
Save ==
    /\ op.name # "load"
    /\ routine # PyNone
    /\ ~to_json_raises(routine)
    /\ json_file' = save(routine)
    /\ op' = [name |-> "save", args |-> <<>>]
    /\ pre' = routine
    /\ ret' = PyNone
    /\ UNCHANGED <<routine, csv_file, routine_dict>>
    /\ UnchangedEditor /\ UnchangedWalk

\* routine.save(filepath) when to_json raises: open(filepath, 'w') has
\* already truncated the file, f.write is never reached
SaveRaises ==
    /\ op = NoOp
    /\ routine # PyNone
    /\ to_json_raises(routine)
    /\ json_file' = EmptyFile
    /\ op' = [name |-> "save", args |-> <<>>]
    /\ ret' = [ok |-> FALSE, error |-> "TypeError"]
    /\ UNCHANGED <<routine, pre, csv_file, routine_dict>>
    /\ UnchangedEditor /\ UnchangedWalk

\* RoutineFlow.load(filepath): the loaded object replaces the one in hand
Load ==
    /\ op.name # "load"
    /\ op' = [name |-> "load", args |-> <<>>]
    /\ ret' = load(json_file)
    /\ routine' = IF ret'.ok THEN ret'.value ELSE routine
    /\ UNCHANGED <<pre, csv_file, json_file, routine_dict>>
    /\ UnchangedEditor /\ UnchangedWalk

NextJson == Save \/ SaveRaises \/ Load

SpecJson == InitJson /\ [][NextJson]_vars

----------------------------------------------------------------------------
(* RoutineFlow.from_dict on a dictionary that stays in memory.  The node   *)
(* from_dict methods assign into the dictionary they are given; an         *)
(* object stored in a dictionary carries the field "object", which no      *)
(* dict of a JSON document has.                                            *)

\* the module's EXAMPLE_ROUTINE
EXAMPLE_ROUTINE ==
    LET meta == [name |-> Str("Dragon Canyon Upper Path 2"),
                 description |-> Str("Efficient farming route for Dragon Canyon"),
                 author |-> Str("AutoMaple"), version |-> Str("1.0"),
                 map_name |-> Str("Dragon Canyon Upper Path 2"),
                 created |-> Str("2025-12-31"), modified |-> Str("2025-12-31")]
        skill(w) == <<[k |-> Str("skill"), v |-> PyStr(Str(w))]>>
        point(id, ex, gx, gy, cmds, adjust, next) ==
            [id |-> Str(id), type |-> Str("point"),
             editor_position |-> [x |-> ex, y |-> 100],
             game_position |-> [x |-> PyInt(gx), y |-> PyInt(gy)],
             commands |-> cmds, frequency |-> 1, skip |-> FALSE,
             adjust |-> adjust, next |-> Str(next)]
    IN  [metadata |-> meta,
         start_node |-> Str("start"),
         nodes |-> <<
            point("start", 100, 100, 200,
                  <<[type |-> Str("buff"), params |-> skill("wind_booster")],
                    [type |-> Str("attack"), params |-> skill("arrow_rain")]>>,
                  FALSE, "checkpoint_1"),
            point("checkpoint_1", 300, 300, 200,
                  <<[type |-> Str("attack"), params |-> skill("arrow_platter")]>>,
                  FALSE, "checkpoint_2"),
            point("checkpoint_2", 500, 500, 150,
                  <<[type |-> Str("buff"), params |-> <<>>],
                    [type |-> Str("attack"), params |-> skill("arrow_stream")]>>,
                  TRUE, "loop_back"),
            [id |-> Str("loop_back"), type |-> Str("jump"),
             editor_position |-> [x |-> 500, y |-> 300],
             target_label |-> Str("main_loop"), frequency |-> 1, skip |-> FALSE,
             next |-> None],
            [id |-> Str("main_loop"), type |-> Str("label"),
             editor_position |-> [x |-> 100, y |-> 300],
             label |-> Str("main_loop"), next |-> Str("start")]>>]

\* a value found in a dictionary is an object, not a dict
IsObject(v) == "object" \in DOMAIN v

\* the NodePosition object the from_dict methods store back into data
NodePositionObject(pos_data) ==
    [object |-> "NodePosition", x |-> pos_data.x, y |-> pos_data.y]

\* the CommandData object PointNode.from_dict stores back into data
CommandDataObject(cmd) ==
    [object |-> "CommandData", type |-> cmd.type,
     params |-> IF "params" \in DOMAIN cmd THEN cmd.params ELSE <<>>]

\* whether <Class>.from_dict(data) raises on a dictionary that may hold
\* objects: pos_data['x'] and cmd['type'] raise TypeError on an object
node_from_dict_raises_on(data) ==
    \/ node_from_dict_raises(data)
    \/ IsObject(data.editor_position)
    \/ /\ ClassOfType(data.type) = "PointNode"
       /\ "commands" \in DOMAIN data
       /\ \E i \in DOMAIN data.commands : IsObject(data.commands[i])

\* the dictionary after <Class>.from_dict(data), which may have raised:
\* editor_position is assigned once pos_data has given x and y, commands
\* (PointNode only) once every command has been built
node_dict_after(data) ==
    LET pos_ok ==
            /\ "editor_position" \in DOMAIN data
            /\ ~IsObject(data.editor_position)
            /\ {"x", "y"} \subseteq DOMAIN data.editor_position
        cmds == IF "commands" \in DOMAIN data THEN data.commands ELSE <<>>
        cmds_ok ==
            \A i \in DOMAIN cmds : ~IsObject(cmds[i]) /\ "type" \in DOMAIN cmds[i]
        with_pos ==
            [data EXCEPT !.editor_position = NodePositionObject(data.editor_position)]
    IN  IF "type" \notin DOMAIN data \/ ~pos_ok THEN data
        ELSE IF ClassOfType(data.type) = "PointNode" /\ cmds_ok
        THEN With(with_pos, "commands",
                  [i \in DOMAIN cmds |-> CommandDataObject(cmds[i])])
        ELSE with_pos

\* whether RoutineFlow.from_dict raises before it reaches the nodes
from_dict_raises_early(data) ==
    \/ "metadata" \notin DOMAIN data
    \/ (DOMAIN data.metadata) \ MetadataFields # {}
    \/ "nodes" \notin DOMAIN data

\* positions of the nodes RoutineFlow.from_dict calls a from_dict on: up
\* to the first one that raises
NodesReached(data) ==
    {i \in DOMAIN data.nodes :
        \A j \in 1..(i - 1) : ~node_from_dict_raises_on(data.nodes[j])}

\* what RoutineFlow.from_dict(data) returns or raises
from_dict_result(data) ==
    IF \/ from_dict_raises_early(data)
       \/ \E i \in DOMAIN data.nodes : node_from_dict_raises_on(data.nodes[i])
       \/ "start_node" \notin DOMAIN data
    THEN [ok |-> FALSE, error |-> "KeyError/TypeError"]
    ELSE [ok |-> TRUE, value |-> from_dict(data)]

\* the dictionary after RoutineFlow.from_dict(data)
from_dict_after(data) ==
    IF from_dict_raises_early(data) THEN data
    ELSE [data EXCEPT !.nodes =
            [i \in DOMAIN data.nodes |->
                IF i \in NodesReached(data)
                THEN node_dict_after(data.nodes[i]) ELSE data.nodes[i]]]

\* dictionaries a caller holds
DictInputs == {EXAMPLE_ROUTINE} \cup HandDocs

InitFromDict ==
    /\ routine_dict \in DictInputs
    /\ routine = PyNone /\ routine_flow = PyNone /\ flow_nodes = <<>>
    /\ selected_node = PyNone /\ canvas = {}
    /\ csv_file = None /\ json_file = NoFile
    /\ op = NoOp /\ pre = PyNone /\ ret = PyNone
    /\ pc = "idle" /\ current_id = None /\ visited = {} /\ ordered_nodes = <<>>

\* RoutineFlow.from_dict(routine_dict), called a first and a second time;
\* pre keeps the dictionary as it was and what the first call gave
FromDict ==
    /\ \/ op = NoOp
       \/ op.name = "from_dict" /\ op.args = <<1>>
    /\ op' = [name |-> "from_dict", args |-> <<IF op = NoOp THEN 1 ELSE 2>>]
    /\ ret' = from_dict_result(routine_dict)
    /\ routine_dict' = from_dict_after(routine_dict)
    /\ routine' = IF ret'.ok THEN ret'.value ELSE routine
    /\ pre' = IF op = NoOp THEN [data |-> routine_dict, first |-> ret'] ELSE pre
    /\ UNCHANGED <<csv_file, json_file>>
    /\ UnchangedEditor /\ UnchangedWalk

NextFromDict == FromDict

SpecFromDict == InitFromDict /\ [][NextFromDict]_vars

----------------------------------------------------------------------------
(* flow_editor.py : FlowNode and FlowEditorCanvas.                         *)
(*                                                                         *)
(* The tk canvas is modelled by the item ids it has handed out and by      *)
(* the items that carry a node tag: of the items FlowNode.draw creates,    *)
(* the rectangle stands for those tagged ('node', 'node_<id>') and the     *)
(* input port for those tagged ('port', ..., 'node_<id>').  A FlowNode is  *)
(* known by the id of its node_data and by its rectangle's item id.        *)

\* f'node_{self.node_data.id}'
NodeTag(id) == <<"node_">> \o id

\* tag.replace('node_', '')
TagToNodeId(tag) == SelectSeq(tag, LAMBDA tok : tok # "node_")

EmptyCanvas == [next_item |-> 1, items |-> {}]

\* FlowNode(canvas, node, x, y): the FlowNode and the canvas after draw()
NewFlowNode(cv, node) == [id |-> node.id, rect |-> cv.next_item]

DrawFlowNode(cv, node) ==
    [next_item |-> cv.next_item + 2,
     items |-> cv.items \cup
        {[item |-> cv.next_item, group |-> "node", tag |-> NodeTag(node.id)],
         [item |-> cv.next_item + 1, group |-> "port", tag |-> NodeTag(node.id)]}]

\* canvas.delete('node')
CanvasDeleteNodes(cv) == [cv EXCEPT !.items = {it \in @ : it.group # "node"}]

\* canvas.delete(f'node_{id}')
CanvasDeleteTag(cv, tag) == [cv EXCEPT !.items = {it \in @ : it.tag # tag}]

\* flow_nodes[key] = value
DictPut(d, key, value) ==
    [k \in (DOMAIN d) \cup {key} |-> IF k = key THEN value ELSE d[k]]

\* a del that leaves the key in place
DictDel_keep(d, key) == d

\* del flow_nodes[key]
DictDel(d, key) == [k \in (DOMAIN d) \ {key} |-> d[k]]

\* the loop of _load_routine over routine_flow.nodes
RECURSIVE LoadNodes(_, _, _)
LoadNodes(nodes, fn, cv) ==
    IF nodes = <<>> THEN [flow_nodes |-> fn, canvas |-> cv]
    ELSE LoadNodes(Tail(nodes),
                   DictPut(fn, Head(nodes).id, NewFlowNode(cv, Head(nodes))),
                   DrawFlowNode(cv, Head(nodes)))

\* _load_routine
load_routine(R, cv) == LoadNodes(R.nodes, <<>>, CanvasDeleteNodes(cv))

\* _create_empty_routine
create_empty_routine ==
    RoutineFlow(RoutineMetadata(Str("New Routine"), <<>>, <<>>, Str("1.0"),
                                <<>>, <<>>, <<>>),
                <<>>, <<>>)

\* node_id = f"node_{len(self.routine_flow.nodes)}"
NewNodeId(R) == NodeIdOf(Len(R.nodes))

EditorY(R) == 100 + Len(R.nodes) * 100

\* the node each Add button builds
NewEditorNode(kind, R) ==
    CASE kind = "point" ->
            PointNode(NewNodeId(R), NodePosition(100, EditorY(R)), None,
                      [x |-> PyInt(0), y |-> PyInt(0)], <<>>, 1, FALSE, FALSE)
      [] kind = "label" ->
            LabelNode(NewNodeId(R), NodePosition(100, EditorY(R)), None,
                      <<"label_", ToString(Len(R.nodes))>>)
      [] kind = "jump" ->
            JumpNode(NewNodeId(R), NodePosition(100, EditorY(R)), None, <<>>, 1, FALSE)

----------------------------------------------------------------------------
(* The editor as a state machine.                                          *)

\* most nodes a routine in the editor grows to
MaxEditorNodes == 3

\* most FlowNodes created in one run of the editor
MaxFlowNodes == 4

\* FlowNodes created so far (each draws two of the modelled items)
FlowNodesCreated(cv) == (cv.next_item - 1) \div 2

\* a routine saved earlier, with ids that are pairwise distinct
LoadedRoutine ==
    RoutineFlow(DefaultMetadata,
        <<PointNode(IdA, NodePosition(100, 100), IdB,
                    [x |-> PyInt(100), y |-> PyInt(200)], <<AttackCmd>>, 1, FALSE, FALSE),
          LabelNode(IdB, NodePosition(300, 100), None, Str("loop_start"))>>,
        IdA)

\* a CSV routine the editor is opened on (File._open_flow_editor)
EditorCsv == TextOf(<<LinePoint1, LineAttack, LinePoint2>>)

\* the routine the editor window is constructed with
EditorStartRoutines ==
    {create_empty_routine, LoadedRoutine, csv_to_json(EditorCsv).value}

\* a document whose second node lacks its id
EditorBadDoc ==
    [metadata |-> to_dict(LoadedRoutine).metadata,
     nodes |-> <<DocNode(IdA, "point"), Without(DocNode(IdB, "label"), "id")>>,
     start_node |-> IdA]

\* files the user can pick in the Load JSON dialog
EditorJsonInputs == {save(LoadedRoutine), NotJson, NoFile, EditorBadDoc}

\* a _load_json that empties the canvas before it reads the file
load_json_clear_first(file, R, fn, cv) ==
    IF load(file).ok
    THEN [routine_flow |-> load(file).value,
          flow_nodes |-> load_routine(load(file).value, cv).flow_nodes,
          canvas |-> load_routine(load(file).value, cv).canvas,
          ret |-> PyNone]
    ELSE [routine_flow |-> R, flow_nodes |-> <<>>,
          canvas |-> CanvasDeleteNodes(cv), ret |-> load(file)]

\* _load_json on the chosen file: what the editor holds afterwards, and the
\* error the except clause shows (a failure of RoutineFlow.load is caught
\* before anything is assigned)
load_json(file, R, fn, cv) ==
    IF load(file).ok
    THEN [routine_flow |-> load(file).value,
          flow_nodes |-> load_routine(load(file).value, cv).flow_nodes,
          canvas |-> load_routine(load(file).value, cv).canvas,
          ret |-> PyNone]
    ELSE [routine_flow |-> R, flow_nodes |-> fn, canvas |-> cv,
          ret |-> load(file)]

InitEditor ==
    \E R \in EditorStartRoutines :
        /\ routine_flow = R
        /\ flow_nodes = load_routine(R, EmptyCanvas).flow_nodes
        /\ canvas = load_routine(R, EmptyCanvas).canvas
        /\ selected_node = PyNone
        /\ json_file = NoFile /\ csv_file = None /\ routine_dict = PyNone
        /\ routine = PyNone
        /\ op = NoOp /\ pre = PyNone /\ ret = PyNone
        /\ pc = "idle" /\ current_id = None /\ visited = {} /\ ordered_nodes = <<>>

UnchangedConv ==
    UNCHANGED <<routine, csv_file, routine_dict, pre, pc, current_id, visited, ordered_nodes>>

\* _add_point_node / _add_label_node / _add_jump_node
AddNode(kind) ==
    LET node == NewEditorNode(kind, routine_flow)
    IN  /\ Len(routine_flow.nodes) < MaxEditorNodes
        /\ FlowNodesCreated(canvas) < MaxFlowNodes
        /\ routine_flow' = add_node(routine_flow, node)
        /\ flow_nodes' = DictPut(flow_nodes, node.id, NewFlowNode(canvas, node))
        /\ canvas' = DrawFlowNode(canvas, node)
        /\ op' = [name |-> "add", args |-> <<kind>>]
        /\ ret' = PyNone
        /\ UNCHANGED <<selected_node, json_file>>
        /\ UnchangedConv

AddPoint == AddNode("point")

AddLabel == AddNode("label")

AddJump == AddNode("jump")

\* _on_canvas_click on a canvas item that carries a node tag
ClickItem ==
    \E it \in canvas.items :
        LET node_id == TagToNodeId(it.tag)
        IN  /\ selected_node' = IF node_id \in DOMAIN flow_nodes
                                THEN flow_nodes[node_id] ELSE PyNone
            /\ op' = [name |-> "click", args |-> <<it.tag>>]
            /\ ret' = PyNone
            /\ UNCHANGED <<routine_flow, flow_nodes, canvas, json_file>>
            /\ UnchangedConv

\* _on_canvas_click on empty space
ClickEmpty ==
    /\ selected_node' = PyNone
    /\ op' = [name |-> "click_empty", args |-> <<>>]
    /\ ret' = PyNone
    /\ UNCHANGED <<routine_flow, flow_nodes, canvas, json_file>>
    /\ UnchangedConv

\* _delete_selected; del flow_nodes[node_id] raises KeyError when the key is
\* missing, after the canvas items are gone and before anything else is done
DeleteSelected ==
    /\ selected_node # PyNone
    /\ op' = [name |-> "delete", args |-> <<selected_node.id>>]
    /\ canvas' = CanvasDeleteTag(canvas, NodeTag(selected_node.id))
    /\ IF selected_node.id \in DOMAIN flow_nodes
       THEN /\ flow_nodes' = DictDel(flow_nodes, selected_node.id)
            /\ routine_flow' = remove_node(routine_flow, selected_node.id)
            /\ selected_node' = PyNone
            /\ ret' = PyNone
       ELSE /\ ret' = [ok |-> FALSE, error |-> "KeyError"]
            /\ UNCHANGED <<flow_nodes, routine_flow, selected_node>>
    /\ UNCHANGED json_file
    /\ UnchangedConv

\* _clear_canvas, answered yes
ClearCanvas ==
    /\ canvas' = CanvasDeleteNodes(canvas)
    /\ flow_nodes' = <<>>
    /\ routine_flow' = [routine_flow EXCEPT !.nodes = <<>>]
    /\ op' = [name |-> "clear", args |-> <<>>]
    /\ ret' = PyNone
    /\ UNCHANGED <<selected_node, json_file>>
    /\ UnchangedConv

\* _load_json, a file chosen in the dialog
LoadJson ==
    \E file \in EditorJsonInputs :
        /\ load(file).ok =>
                FlowNodesCreated(canvas) + Len(load(file).value.nodes) <= MaxFlowNodes
        /\ op' = [name |-> "load_json", args |-> <<>>]
        /\ ret' = load_json(file, routine_flow, flow_nodes, canvas).ret
        /\ routine_flow' = load_json(file, routine_flow, flow_nodes, canvas).routine_flow
        /\ flow_nodes' = load_json(file, routine_flow, flow_nodes, canvas).flow_nodes
        /\ canvas' = load_json(file, routine_flow, flow_nodes, canvas).canvas
        /\ UNCHANGED <<selected_node, json_file>>
        /\ UnchangedConv

Next ==
    \/ AddPoint \/ AddLabel \/ AddJump
    \/ ClickItem \/ ClickEmpty
    \/ DeleteSelected \/ ClearCanvas
    \/ LoadJson

Init == InitEditor

Spec == Init /\ [][Next]_vars

----------------------------------------------------------------------------
(* Claims.                                                                 *)

\* positions of pre.nodes whose id differs from id, in increasing order
KeptPositions(R, id) ==
    LET RECURSIVE from(_)
        from(i) == IF i > Len(R.nodes) THEN <<>>
                   ELSE IF R.nodes[i].id # id THEN <<i>> \o from(i + 1)
                   ELSE from(i + 1)
    IN  from(1)

\* C1: after remove_node(id) no remaining node has that id, no remaining
\* node has next equal to that id, and the nodes with another id are all
\* kept (same id, class and payload) in their previous relative order.
C1_RemoveNodeCleans ==
    op.name = "remove_node" =>
        LET id == op.args[1]
            kept == KeptPositions(pre, id)
        IN  /\ \A i \in DOMAIN routine.nodes :
                /\ routine.nodes[i].id # id
                /\ routine.nodes[i].next # id
            /\ Len(routine.nodes) = Len(kept)
            /\ \A i \in DOMAIN routine.nodes :
                LET old == pre.nodes[kept[i]]
                    new == routine.nodes[i]
                IN  /\ [new EXCEPT !.next = None] = [old EXCEPT !.next = None]
                    /\ (old.next # id => new.next = old.next)

\* a node that pointed at the removed one survives the removal of a node
\* standing between two kept nodes
C1_Witness ==
    /\ op.name = "remove_node"
    /\ Len(pre.nodes) = 3
    /\ pre.nodes[2].id = op.args[1]
    /\ pre.nodes[1].id # op.args[1] /\ pre.nodes[3].id # op.args[1]
    /\ pre.nodes[1].next = op.args[1]
    /\ Len(routine.nodes) = 2

\* csv_to_json returned a routine
CsvDone == op.name = "csv_to_json" /\ ret.ok

\* C3: csv_to_json of the example CSV yields exactly 4 nodes, the first
\* point holding exactly the command attack without params and the second
\* point frequency 2 and exactly the command buff.
C3_ExampleCommands ==
    (CsvDone /\ pre = ExampleCsv) =>
        /\ Len(routine.nodes) = 4
        /\ routine.nodes[1].cls = "PointNode"
        /\ routine.nodes[1].commands = <<CommandData(Str("attack"), <<>>)>>
        /\ routine.nodes[2].cls = "PointNode"
        /\ routine.nodes[2].frequency = 2
        /\ routine.nodes[2].commands = <<CommandData(Str("buff"), <<>>)>>

\* C4: the nodes csv_to_json produces form an unbroken chain in file order:
\* each node's next is the id of the node after it, the last node's next is
\* None, the ids are pairwise distinct and start_node is the first node, so
\* the next-walk from start_node visits every node once in file order.
C4_UnbrokenChain ==
    CsvDone =>
        /\ \A i \in 1..(Len(routine.nodes) - 1) :
                routine.nodes[i].next = routine.nodes[i + 1].id
        /\ routine.nodes # <<>> => routine.nodes[Len(routine.nodes)].next = None
        /\ routine.nodes # <<>> => routine.start_node = routine.nodes[1].id
        /\ \A i, j \in DOMAIN routine.nodes :
                routine.nodes[i].id = routine.nodes[j].id => i = j

\* the example CSV: four declaration rows with rows between them that
\* declare nothing
C4_Witness ==
    /\ CsvDone
    /\ pre = ExampleCsv
    /\ Len(routine.nodes) = 4
    /\ Len(CsvReader(pre)) = 6
    /\ routine.nodes[1].next = routine.nodes[2].id
    /\ routine.nodes[3].next = routine.nodes[4].id

\* C2: in every state of the editor no two nodes of routine_flow have the
\* same id.
C2_IdsUnique ==
    \A i, j \in DOMAIN routine_flow.nodes :
        routine_flow.nodes[i].id = routine_flow.nodes[j].id => i = j

\* what a node holds besides its id, its layout position and its link;
\* numbers are compared by value, as Python compares 0 and 0.0
NumValue(v) == IF v.t = "int" THEN [t |-> "num", n |-> v.i]
               ELSE IF v.t = "float" THEN [t |-> "num", n |-> v.f]
               ELSE v

Content(node) ==
    [k \in (DOMAIN node) \ {"id", "editor_position", "next"} |->
        IF k = "game_position"
        THEN [c \in DOMAIN node.game_position |-> NumValue(node.game_position[c])]
        ELSE IF k = "commands"
        THEN [i \in DOMAIN node.commands |->
                [type |-> node.commands[i].type,
                 params |-> Range(node.commands[i].params)]]
        ELSE node[k]]

Contents(R, positions) == [i \in DOMAIN positions |-> Content(R.nodes[positions[i]])]

\* the routine json_to_csv read, while the JSON file is the one it read
SourceRoutine == load(json_file).value

\* json_to_csv wrote a CSV file and csv_to_json read it back into routine
RoundTripDone ==
    /\ op.name = "csv_to_json" /\ pc = "done" /\ ret.ok
    /\ op.args[1] = FALSE

\* C5: the next-walk of csv_to_json(json_to_csv(R)) visits the same
\* sequence of node kinds and field values as the next-walk of R.
C5_RoundTripWalk ==
    RoundTripDone =>
        Contents(routine, NextWalk(routine)) = Contents(SourceRoutine, NextWalk(SourceRoutine))

\* C6: for a routine made of point, label, jump and setting nodes,
\* csv_to_json(json_to_csv(x)) holds one node per node of x with the same
\* kind, the same field values and, for a point, the same command list.
C6_RoundTripFields ==
    (/\ RoundTripDone
     /\ \A i \in DOMAIN SourceRoutine.nodes : SourceRoutine.nodes[i].cls # "RoutineNode")
    => /\ Len(routine.nodes) = Len(ordered_nodes)
       /\ Contents(routine, [i \in DOMAIN routine.nodes |-> i])
            = Contents(SourceRoutine, ordered_nodes)

\* C7: load after save gives back the routine that was saved: metadata,
\* start_node, the node sequence in order, each node's class and each
\* field, next and the command list included.
C7_SaveLoadRoundTrip ==
    (op.name = "load" /\ pre # PyNone) => (ret.ok /\ routine = pre)

\* a saved and reloaded routine of three nodes, among them a point with
\* commands and a node whose next is set
C7_Witness ==
    /\ op.name = "load" /\ pre # PyNone /\ ret.ok
    /\ Len(routine.nodes) = 3
    /\ \E i \in DOMAIN routine.nodes :
            routine.nodes[i].cls = "PointNode" /\ Len(routine.nodes[i].commands) = 2
    /\ \E i \in DOMAIN routine.nodes : routine.nodes[i].cls = "JumpNode"
    /\ routine.nodes[1].next = routine.nodes[2].id

\* json_to_csv has fixed its emitted order
J2cOrdered ==
    /\ op.name = "json_to_csv"
    /\ \/ pc \in {"emit", "done"}
       \/ pc = "raised" /\ ret.error = "KeyError"

\* C8: the walk of json_to_csv takes at most one step per node, and each
\* node id appears at most once in the emitted order.
C8_WalkBoundedIdsOnce ==
    /\ (op.name = "json_to_csv" /\ pc = "walk")
            => Len(ordered_nodes) <= Len(routine.nodes)
    /\ J2cOrdered =>
            \A i, j \in DOMAIN ordered_nodes :
                routine.nodes[ordered_nodes[i]].id = routine.nodes[ordered_nodes[j]].id
                    => i = j

\* the positions in S in increasing order
RECURSIVE Increasing(_)
Increasing(S) ==
    IF S = {} THEN <<>>
    ELSE LET m == CHOOSE x \in S : \A y \in S : x <= y
         IN  <<m>> \o Increasing(S \ {m})

\* C9: the emitted order of json_to_csv is the next-walk from start_node
\* followed by every node the walk did not reach, in sequence order, so
\* that every node of the routine is in it.
C9_NoNodeDropped ==
    J2cOrdered =>
        /\ ordered_nodes =
              NextWalk(routine)
              \o Increasing((DOMAIN routine.nodes) \ Range(NextWalk(routine)))
        /\ Range(ordered_nodes) = DOMAIN routine.nodes

\* start_node is empty or names no node of the routine
DanglingStart(R) == ~Truthy(R.start_node) \/ get_node_index(R, R.start_node) = 0

\* C10: with a start_node that is empty or names no node, json_to_csv
\* raises nothing, its walk is empty and the emitted order is the node
\* sequence in insertion order.
C10_DanglingStart ==
    (op.name = "json_to_csv" /\ routine # PyNone /\ DanglingStart(routine)) =>
        /\ pc # "raised"
        /\ pc \in {"walk", "append"} => ordered_nodes = <<>>
        /\ pc \in {"emit", "done"} =>
                ordered_nodes = [i \in DOMAIN routine.nodes |-> i]

\* some node of R has that id
HasId(R, id) == \E i \in DOMAIN R.nodes : R.nodes[i].id = id

\* the position of the first node of R with that id
FirstWithId(R, id) ==
    CHOOSE i \in DOMAIN R.nodes :
        R.nodes[i].id = id /\ \A j \in DOMAIN R.nodes : R.nodes[j].id = id => i <= j

\* C11: connect_nodes(a, b) where no node has id a leaves the routine as it
\* was: node sequence, every field of every node, start_node and metadata.
C11_ConnectAbsentUnchanged ==
    (op.name = "connect_nodes" /\ ~HasId(pre, op.args[1])) => routine = pre

\* a routine of two nodes, neither with the id connect_nodes was given
C11_Witness ==
    /\ op.name = "connect_nodes"
    /\ ~HasId(pre, op.args[1])
    /\ Len(pre.nodes) = 2
    /\ op.args[2] # pre.start_node
    /\ routine = pre

\* C12: connect_nodes(from_id, to_id) where a node has id from_id sets the
\* next of the first such node to to_id, whether or not to_id names a node,
\* and leaves every other node, the sequence, start_node and metadata alone.
C12_ConnectSetsNextOnly ==
    (op.name = "connect_nodes" /\ HasId(pre, op.args[1])) =>
        LET k == FirstWithId(pre, op.args[1])
        IN  /\ routine.nodes[k].next = op.args[2]
            /\ Len(routine.nodes) = Len(pre.nodes)
            /\ \A i \in DOMAIN pre.nodes :
                    /\ i # k => routine.nodes[i] = pre.nodes[i]
                    /\ [routine.nodes[i] EXCEPT !.next = None]
                            = [pre.nodes[i] EXCEPT !.next = None]
            /\ routine.start_node = pre.start_node
            /\ routine.metadata = pre.metadata

\* a link to an id no node has, set on the second of three nodes
C12_Witness ==
    /\ op.name = "connect_nodes"
    /\ Len(pre.nodes) = 3
    /\ HasId(pre, op.args[1]) /\ FirstWithId(pre, op.args[1]) = 2
    /\ ~HasId(pre, op.args[2])
    /\ pre.nodes[2].next # op.args[2]
    /\ routine.nodes[2].next = op.args[2]

\* C13: get_node(id) returns none when no node has that id and otherwise
\* the first node in sequence order with that id; the routine is unchanged.
C13_GetNodeFirstMatch ==
    op.name = "get_node" =>
        /\ routine = pre
        /\ ~HasId(pre, op.args[1]) => ret = PyNone
        /\ HasId(pre, op.args[1]) => ret = pre.nodes[FirstWithId(pre, op.args[1])]

\* two different nodes carry the id asked for and the first one is returned
C13_Witness ==
    /\ op.name = "get_node"
    /\ Len(pre.nodes) = 3
    /\ pre.nodes[2].id = op.args[1] /\ pre.nodes[3].id = op.args[1]
    /\ pre.nodes[1].id # op.args[1]
    /\ pre.nodes[2] # pre.nodes[3]
    /\ ret = pre.nodes[2]

\* C14: add_node(node) puts the node at the end of the sequence, also when
\* its id is already present; the nodes that were there keep their order
\* and every field, next included; start_node and metadata are unchanged.
C14_AddNodeAppendsOnly ==
    op.name = "add_node" =>
        /\ Len(routine.nodes) = Len(pre.nodes) + 1
        /\ routine.nodes[Len(routine.nodes)] = op.args[1]
        /\ \A i \in DOMAIN pre.nodes : routine.nodes[i] = pre.nodes[i]
        /\ routine.start_node = pre.start_node
        /\ routine.metadata = pre.metadata

\* a node is added whose id the routine already holds, after a last node
\* that has no next
C14_Witness ==
    /\ op.name = "add_node"
    /\ Len(pre.nodes) = 2
    /\ HasId(pre, op.args[1].id)
    /\ pre.nodes[2].next = None
    /\ Len(routine.nodes) = 3

\* the variant a type tag names, and the fields the data model gives it
VariantOf(tag) ==
    IF tag = Str("point") THEN "PointNode"
    ELSE IF tag = Str("label") THEN "LabelNode"
    ELSE IF tag = Str("jump") THEN "JumpNode"
    ELSE IF tag = Str("setting") THEN "SettingNode"
    ELSE "RoutineNode"

VariantFields(tag) ==
    {"id", "type", "editor_position", "next"}
    \cup (IF tag = Str("point")
          THEN {"game_position", "commands", "frequency", "skip", "adjust"}
          ELSE IF tag = Str("label") THEN {"label"}
          ELSE IF tag = Str("jump") THEN {"target_label", "frequency", "skip"}
          ELSE IF tag = Str("setting") THEN {"setting_key", "setting_value"}
          ELSE {})

\* a file that holds a JSON object with the three top-level keys and no
\* metadata key the data model does not know
CompleteDoc(file) ==
    /\ file \notin {NoFile, NotJson, EmptyFile}
    /\ {"metadata", "nodes", "start_node"} \subseteq DOMAIN file
    /\ DOMAIN file.metadata \subseteq MetadataFields

\* a node object with its required fields, whatever else it carries
RequiredPresent(d) ==
    /\ {"id", "type", "editor_position"} \subseteq DOMAIN d
    /\ {"x", "y"} \subseteq DOMAIN d.editor_position
    /\ "commands" \in DOMAIN d =>
            \A i \in DOMAIN d.commands : "type" \in DOMAIN d.commands[i]

\* a node object that carries only fields of the variant its tag names
OnlyKnownFields(d) == DOMAIN d \subseteq VariantFields(d.type)

\* C15: deserialization dispatches on the type tag: point, label, jump and
\* setting give the variant of that name, any other tag gives a base-shape
\* node and no failure.
C15_DispatchOnType ==
    (/\ op.name = "load"
     /\ CompleteDoc(json_file)
     /\ \A i \in DOMAIN json_file.nodes :
            RequiredPresent(json_file.nodes[i]) /\ OnlyKnownFields(json_file.nodes[i]))
    => /\ ret.ok
       /\ Len(routine.nodes) = Len(json_file.nodes)
       /\ \A i \in DOMAIN json_file.nodes :
            /\ routine.nodes[i].cls = VariantOf(json_file.nodes[i].type)
            /\ DOMAIN routine.nodes[i] = VariantFields(json_file.nodes[i].type) \cup {"cls"}
            /\ routine.nodes[i].id = json_file.nodes[i].id

\* a document with a 'condition' node and a 'jump' node has been loaded
C15_Witness ==
    /\ op.name = "load" /\ ret.ok /\ pre = PyNone
    /\ Len(routine.nodes) = 2
    /\ json_file.nodes[1].type = Str("condition")
    /\ routine.nodes[1].cls = "RoutineNode"
    /\ json_file.nodes[2].type = Str("jump")
    /\ routine.nodes[2].cls = "JumpNode"

\* C16: a node object that carries a field its variant does not define is
\* read without error and yields the node with its known fields.
C16_ExtraFieldsTolerated ==
    (/\ op.name = "load"
     /\ CompleteDoc(json_file)
     /\ \A i \in DOMAIN json_file.nodes : RequiredPresent(json_file.nodes[i]))
    => /\ ret.ok
       /\ Len(routine.nodes) = Len(json_file.nodes)
       /\ \A i \in DOMAIN json_file.nodes :
            /\ routine.nodes[i].cls = VariantOf(json_file.nodes[i].type)
            /\ routine.nodes[i].id = json_file.nodes[i].id

\* bad JSON syntax, a top-level key missing, or a node without id, type or
\* editor_position
Malformed(file) ==
    \/ file \in {NotJson, EmptyFile}
    \/ /\ file # NoFile
       /\ \/ {"metadata", "nodes", "start_node"} \ (DOMAIN file) # {}
          \/ \E i \in DOMAIN file.nodes :
                {"id", "type", "editor_position"} \ (DOMAIN file.nodes[i]) # {}

\* C17: when deserialization fails, load ends in an error and returns no
\* routine: nothing built from the nodes before the failing one is handed
\* to the caller.
C17_LoadFailsWhole ==
    (op.name = "load" /\ Malformed(json_file)) =>
        /\ ~ret.ok
        /\ DOMAIN ret = {"ok", "error"}
        /\ json_file \in HandDocs => routine = PyNone

\* the second node of the document lacks its id, the first one is sound
C17_Witness ==
    /\ op.name = "load"
    /\ CompleteDoc(json_file)
    /\ Len(json_file.nodes) = 2
    /\ RequiredPresent(json_file.nodes[1]) /\ OnlyKnownFields(json_file.nodes[1])
    /\ "id" \notin DOMAIN json_file.nodes[2]
    /\ ~ret.ok
    /\ routine = PyNone

\* C19: save is all-or-nothing: whatever step fails, the file holds its
\* complete previous content or the complete new serialization.
C19_SaveAllOrNothing ==
    op.name = "save" => (json_file = to_dict(routine) \/ json_file \in InitialFiles)

\* the rows of the CSV file csv_to_json was given, and what a row declares
RowSymbol(row) == IF row = <<>> THEN <<>> ELSE Lower(Strip(row[1]))

IsPointRow(row) == RowSymbol(row) \in {Str("*"), Str("point")}

IsJumpRow(row) == RowSymbol(row) \in {Str(">"), Str("jump"), Str("goto")}

DeclaresNode(row) ==
    \/ IsPointRow(row) \/ IsJumpRow(row)
    \/ RowSymbol(row) \in {Str("@"), Str("label"), Str("$"), Str("setting")}

RowParam(row, key) == DictGet(parse_params(Tail(row)), Str(key), None)

\* the text is neither absent nor the decimal form of a number
BadFloat(s) == s # None /\ ~IsFloatLiteral(s)

BadInt(s) == s # None /\ ~IsIntLiteral(s)

HasBadNumber(row) ==
    \/ IsPointRow(row) /\ (BadFloat(RowParam(row, "x")) \/ BadFloat(RowParam(row, "y")))
    \/ (IsPointRow(row) \/ IsJumpRow(row)) /\ BadInt(RowParam(row, "frequency"))

\* C18: in csv_to_json an absent x or y is 0 and an absent frequency is 1;
\* a malformed x, y or frequency on a point or jump row ends the conversion
\* in an error: no routine is returned, not even the nodes parsed before
\* the bad row, and no output file is written.
C18_NumbersDefaultOrFatal ==
    op.name = "csv_to_json" =>
        LET rows == CsvReader(pre)
            decl == SelectSeq(rows, DeclaresNode)
        IN  IF \E i \in DOMAIN rows : HasBadNumber(rows[i])
            THEN /\ ~ret.ok
                 /\ DOMAIN ret = {"ok", "error"}
                 /\ routine = PyNone
                 /\ json_file = NoFile
            ELSE /\ ret.ok
                 /\ Len(routine.nodes) = Len(decl)
                 /\ \A i \in DOMAIN decl :
                      /\ (IsPointRow(decl[i]) /\ RowParam(decl[i], "x") = None)
                            => routine.nodes[i].game_position.x = PyFloat(0)
                      /\ (IsPointRow(decl[i]) /\ RowParam(decl[i], "y") = None)
                            => routine.nodes[i].game_position.y = PyFloat(0)
                      /\ ((IsPointRow(decl[i]) \/ IsJumpRow(decl[i]))
                                /\ RowParam(decl[i], "frequency") = None)
                            => routine.nodes[i].frequency = 1

\* a sound point row, then a jump row whose frequency is "2.0", with an
\* output file asked for: the conversion raised and wrote nothing
C18_Witness ==
    /\ op.name = "csv_to_json" /\ op.args[1] = TRUE
    /\ pre = TextOf(<<LinePoint1, LineJumpBadFrequency>>)
    /\ ~ret.ok
    /\ routine = PyNone /\ json_file = NoFile

\* C20: every point node and every jump node of a routine csv_to_json
\* returns has an integer frequency of at least 1.
C20_FrequencyPositive ==
    CsvDone =>
        \A i \in DOMAIN routine.nodes :
            routine.nodes[i].cls \in {"PointNode", "JumpNode"}
                => routine.nodes[i].frequency \in Nat /\ routine.nodes[i].frequency >= 1

\* the node's next is set and names no node of R
DanglingNext(R, node) == Truthy(node.next) /\ ~HasId(R, node.next)

LinesOf(text) ==
    IF text = <<"\n">> THEN <<>> ELSE Split(SubSeq(text, 1, Len(text) - 1), "\n")

\* how many lines a node is due
LineCount(node) ==
    IF node.cls = "PointNode" THEN 1 + Len(node.commands)
    ELSE IF node.cls = "LabelNode" THEN 2
    ELSE IF node.cls \in {"JumpNode", "SettingNode"} THEN 1
    ELSE 0

\* lines due to the first k nodes of the emitted order
RECURSIVE LinesBefore(_, _, _)
LinesBefore(R, ordered, k) ==
    IF k = 0 THEN 0
    ELSE LinesBefore(R, ordered, k - 1) + LineCount(R.nodes[ordered[k]])

HasToken(line, tok) == \E i \in DOMAIN line : line[i] = tok

\* C27: in the text of json_to_csv a point, a jump and a setting have one
\* declaration line each, a label a blank line and a declaration line; the
\* commands of a point are indented lines right after the point's line, in
\* command order; frequency, skip and adjust are written only when
\* frequency is not 1 and skip / adjust are true.
C27_EmittedLines ==
    (op.name = "json_to_csv" /\ pc = "done") =>
        LET lines == LinesOf(ret.value)
        IN  /\ Len(lines) = LinesBefore(routine, ordered_nodes, Len(ordered_nodes))
            /\ \A i \in DOMAIN ordered_nodes :
                LET node == routine.nodes[ordered_nodes[i]]
                    o == LinesBefore(routine, ordered_nodes, i - 1) + 1
                IN  /\ node.cls = "PointNode" =>
                        /\ Head(lines[o]) = "*"
                        /\ HasToken(lines[o], "frequency") <=> node.frequency # 1
                        /\ HasToken(lines[o], "skip") <=> node.skip
                        /\ HasToken(lines[o], "adjust") <=> node.adjust
                        /\ \A c \in DOMAIN node.commands :
                            /\ StartsWith(lines[o + c], Indent4 \o node.commands[c].type)
                            /\ Len(node.commands[c].params) = 0
                                    => lines[o + c] = Indent4 \o node.commands[c].type
                    /\ node.cls = "LabelNode" =>
                        lines[o] = <<>> /\ Head(lines[o + 1]) = "@"
                    /\ node.cls = "JumpNode" =>
                        /\ Head(lines[o]) = ">"
                        /\ HasToken(lines[o], "frequency") <=> node.frequency # 1
                        /\ HasToken(lines[o], "skip") <=> node.skip
                    /\ node.cls = "SettingNode" => Head(lines[o]) = "$"

\* a point with two commands and a frequency of 1 has been written, a
\* label after it
C27_Witness ==
    /\ op.name = "json_to_csv" /\ pc = "done"
    /\ Len(ordered_nodes) >= 2
    /\ routine.nodes[ordered_nodes[1]].cls = "PointNode"
    /\ Len(routine.nodes[ordered_nodes[1]].commands) = 2
    /\ routine.nodes[ordered_nodes[1]].frequency = 1
    /\ routine.nodes[ordered_nodes[2]].cls = "LabelNode"
    /\ Len(LinesOf(ret.value)) = 5

\* the rows of the file that declare a node, and where they stand
DeclRows(text) == SelectSeq(CsvReader(text), DeclaresNode)

DeclPositions(text) ==
    Increasing({q \in DOMAIN CsvReader(text) : DeclaresNode(CsvReader(text)[q])})

\* the node class the symbol table gives a declaration row
KindOfRow(row) ==
    IF IsPointRow(row) THEN "PointNode"
    ELSE IF IsJumpRow(row) THEN "JumpNode"
    ELSE IF RowSymbol(row) \in {Str("@"), Str("label")} THEN "LabelNode"
    ELSE "SettingNode"

\* C22: the routine csv_to_json returns starts at the node of the first
\* recognized declaration row, also when skipped rows precede it, and at
\* "node_0" with no nodes when the file has no such row.
C22_StartNode ==
    CsvDone =>
        IF DeclRows(pre) = <<>>
        THEN routine.nodes = <<>> /\ routine.start_node = <<"node_", "0">>
        ELSE /\ routine.start_node = routine.nodes[1].id
             /\ routine.nodes[1].cls = KindOfRow(DeclRows(pre)[1])

\* an unknown row, then a label row: the routine starts at the label,
\* whose id is node_1
C22_Witness ==
    /\ CsvDone
    /\ pre = TextOf(<<LineUnknown, LineLabel>>)
    /\ routine.start_node = <<"node_", "1">>
    /\ routine.nodes[1].cls = "LabelNode"

\* the number in an id node_<n>
IdNumber(id) == CHOOSE n \in 0..Len(pre) : id = <<"node_", ToString(n)>>

\* C23: the ids csv_to_json hands out are node_<n> with n strictly
\* increasing along file order, hence pairwise distinct, whatever kinds of
\* rows the file mixes.
C23_IdsIncrease ==
    CsvDone =>
        /\ \A i \in DOMAIN routine.nodes :
                \E n \in 0..(Len(CsvReader(pre)) - 1) :
                    routine.nodes[i].id = <<"node_", ToString(n)>>
        /\ \A i, j \in DOMAIN routine.nodes :
                i < j => /\ IdNumber(routine.nodes[i].id) < IdNumber(routine.nodes[j].id)
                         /\ routine.nodes[i].id # routine.nodes[j].id

\* a point, a skipped row and a label: ids node_0 and node_2
C23_Witness ==
    /\ CsvDone
    /\ Len(CsvReader(pre)) = 3
    /\ Len(routine.nodes) = 2
    /\ routine.nodes[1].cls = "PointNode" /\ routine.nodes[2].cls = "LabelNode"
    /\ routine.nodes[1].id = <<"node_", "0">>
    /\ routine.nodes[2].id = <<"node_", "2">>

\* C24: a non-blank row whose first token is not in the symbol table is
\* skipped without error: it makes no node, moves no editor x-offset and
\* breaks no link: the next declaration row is chained from the last
\* declaration before it, and start_node is the first declaration.
C24_UnknownRowSkipped ==
    CsvDone =>
        /\ Len(routine.nodes) = Len(DeclRows(pre))
        /\ \A i \in DOMAIN routine.nodes :
            /\ routine.nodes[i].cls = KindOfRow(DeclRows(pre)[i])
            /\ routine.nodes[i].editor_position = [x |-> 100 + 200 * (i - 1), y |-> 100]
            /\ routine.nodes[i].next =
                    IF i < Len(routine.nodes) THEN routine.nodes[i + 1].id ELSE None
        /\ routine.nodes # <<>> => routine.start_node = routine.nodes[1].id

\* a point row, a row with the unknown symbol foo, a label row
C24_Witness ==
    /\ CsvDone
    /\ pre = TextOf(<<LinePoint1, LineUnknown, LineLabel>>)
    /\ Len(routine.nodes) = 2
    /\ routine.nodes[2].editor_position.x = 300
    /\ routine.nodes[1].next = routine.nodes[2].id

C26_SymbolTable ==
    op.name = "csv_to_json" =>
        \A c \in SymbolCases, sk \in BoolCases, ad \in BoolCases :
            pre = SymbolText(c, sk, ad) =>
                /\ ret.ok
                /\ c.kind = "none" => routine.nodes = <<>>
                /\ c.kind # "none" =>
                    /\ Len(routine.nodes) = 1
                    /\ routine.nodes[1].cls = c.kind
                    /\ c.kind \in {"PointNode", "JumpNode"}
                            => routine.nodes[1].skip = sk.value
                    /\ c.kind = "PointNode" => routine.nodes[1].adjust = ad.value

\* the row "GOTO, skip=TRUE, adjust=yes" has become a jump that may be
\* skipped
C26_Witness ==
    /\ op.name = "csv_to_json"
    /\ pre = SymbolText([cell |-> <<"GOTO">>, kind |-> "JumpNode"],
                        [word |-> "TRUE", value |-> TRUE],
                        [word |-> "yes", value |-> FALSE])
    /\ Len(routine.nodes) = 1
    /\ routine.nodes[1].cls = "JumpNode"
    /\ routine.nodes[1].skip = TRUE

\* C28 (as stated): remove_node(id) where no node of the routine has that
\* id leaves the routine unchanged: the node sequence, every node's next,
\* start_node and metadata are all as before.
C28_AbsentIdNoChange ==
    (op.name = "remove_node" /\ ~HasId(pre, op.args[1])) => routine = pre

\* C28 (amended): remove_node(id) where no node of the routine has that id
\* keeps the node sequence, its order, every field of every node other
\* than next, start_node and metadata; a next equal to id is cleared to
\* None and every other next is as before.
C28_AbsentIdClearsOnlyNext ==
    (op.name = "remove_node" /\ ~HasId(pre, op.args[1])) =>
        /\ routine.metadata = pre.metadata
        /\ routine.start_node = pre.start_node
        /\ Len(routine.nodes) = Len(pre.nodes)
        /\ \A i \in DOMAIN pre.nodes :
            /\ [routine.nodes[i] EXCEPT !.next = None]
                    = [pre.nodes[i] EXCEPT !.next = None]
            /\ routine.nodes[i].next =
                    IF pre.nodes[i].next = op.args[1]
                    THEN None ELSE pre.nodes[i].next

\* an id no node has was removed from a routine that starts at that id
\* and in which one node pointed at it and another node did not
C28_Witness ==
    /\ op.name = "remove_node"
    /\ ~HasId(pre, op.args[1])
    /\ pre.start_node = op.args[1]
    /\ \E i, j \in DOMAIN pre.nodes :
        /\ pre.nodes[i].next = op.args[1]
        /\ routine.nodes[i].next = None
        /\ pre.nodes[j].next \notin {None, op.args[1]}
        /\ routine.nodes[j].next = pre.nodes[j].next

\* C29: in every state of the flow editor selected_node is either none or
\* the FlowNode stored in flow_nodes under its own node id, and Delete
\* never fails with a missing-key error.
C29_SelectionValid ==
    /\ \/ selected_node = PyNone
       \/ /\ selected_node.id \in DOMAIN flow_nodes
          /\ flow_nodes[selected_node.id] = selected_node
    /\ ~(op.name = "delete" /\ ret # PyNone)

\* C30: a click on a canvas item of a node selects that node: for every
\* node id in flow_nodes the id recovered from the item's tag is the node's
\* id and selected_node becomes that node's FlowNode.
C30_ClickSelects ==
    op.name = "click" =>
        \A id \in DOMAIN flow_nodes :
            op.args[1] = NodeTag(id) =>
                /\ TagToNodeId(op.args[1]) = id
                /\ selected_node = flow_nodes[id]

\* the ids of the nodes of a routine
NodeIds(R) == {R.nodes[i].id : i \in DOMAIN R.nodes}

\* C31: in every state of the flow editor the keys of flow_nodes are the
\* ids of the nodes in routine_flow.nodes.
C31_KeysAreNodeIds == DOMAIN flow_nodes = NodeIds(routine_flow)

\* a Delete took one of several nodes away, from the dictionary and from
\* the routine alike
C31_Witness ==
    /\ op.name = "delete" /\ ret = PyNone
    /\ flow_nodes # <<>>
    /\ op.args[1] \notin DOMAIN flow_nodes
    /\ op.args[1] \notin NodeIds(routine_flow)
    /\ DOMAIN flow_nodes = NodeIds(routine_flow)

\* C32: a routine built in the flow editor from the empty routine, once it
\* has at least one node, has a start_node that names one of its nodes.
C32_EditorStartExists ==
    (/\ routine_flow.metadata = create_empty_routine.metadata
     /\ routine_flow.nodes # <<>>)
        => HasId(routine_flow, routine_flow.start_node)

\* C33: remove_node(id) changes nothing besides removing the nodes with
\* that id and clearing next links equal to id: start_node and metadata
\* keep their values, also when the removed node was the start node, and
\* every remaining node keeps its id, type, variant fields and any next
\* not equal to id.
C33_RemoveNodeFrame ==
    op.name = "remove_node" =>
        LET id == op.args[1]
            kept == KeptPositions(pre, id)
        IN  /\ routine.start_node = pre.start_node
            /\ routine.metadata = pre.metadata
            /\ DOMAIN routine.nodes = DOMAIN kept
            /\ \A i \in DOMAIN kept :
                LET old == pre.nodes[kept[i]]
                    new == routine.nodes[i]
                IN  /\ \A f \in (DOMAIN old) \ {"next"} :
                        f \in DOMAIN new /\ new[f] = old[f]
                    /\ DOMAIN new = DOMAIN old
                    /\ new.next = IF old.next = id THEN None ELSE old.next

\* the start node was removed while another node stayed: start_node now
\* names a missing id
C33_Witness ==
    /\ op.name = "remove_node"
    /\ pre.start_node = op.args[1]
    /\ HasId(pre, op.args[1])
    /\ routine.nodes # <<>>
    /\ routine.start_node = op.args[1]
    /\ ~HasId(routine, routine.start_node)

\* C34: when Load JSON fails (unreadable file or deserialization error)
\* the editor's state is unchanged: routine_flow is the routine held
\* before the attempt and flow_nodes still holds its nodes.
C34_FailedLoadKeepsEditor ==
    [][(op'.name = "load_json" /\ ret' # PyNone) =>
            /\ routine_flow' = routine_flow
            /\ flow_nodes' = flow_nodes
            /\ canvas' = canvas]_vars

\* a document whose second node cannot be built was refused while the
\* editor showed a routine
C34_Witness ==
    /\ op.name = "load_json"
    /\ ret # PyNone
    /\ ret.error = "KeyError/TypeError"
    /\ routine_flow.nodes # <<>>
    /\ DOMAIN flow_nodes = NodeIds(routine_flow)

\* C35: every routine that load accepts without error is converted by
\* json_to_csv without error, a point stored with no game_position, or
\* with one lacking x or y, included.
C35_AcceptedRoutineConverts ==
    (op.name = "json_to_csv" /\ load(pre).ok) => pc # "raised"

\* C36: RoutineFlow.from_dict does not modify the dictionary it is given:
\* deserializing the same dictionary twice succeeds both times and yields
\* equal routines.
C36_FromDictKeepsInput ==
    op.name = "from_dict" =>
        /\ routine_dict = pre.data
        /\ (op.args[1] = 2 /\ pre.first.ok) =>
                (ret.ok /\ ret.value = pre.first.value)

\* C37: in the routine csv_to_json returns, the node at position i of the
\* node sequence (counted from 0) has id node_<i>, whatever command rows,
\* blank rows and unrecognized rows the file holds.
C37_IdsArePositions ==
    CsvDone =>
        \A i \in DOMAIN routine.nodes : routine.nodes[i].id = NodeIdOf(i - 1)

====
